---------------------------- MODULE Spec2Model ----------------------------
(***************************************************************************)
(* A model of the MCPO gateway client (app/connectors/mcpo_connector.py).  *)
(*                                                                         *)
(* Text is a sequence of one-character strings: "/math" is                  *)
(* <<"/", "m", "a", "t", "h">>.  Python values are tagged records          *)
(* [t |-> tag, v |-> payload]; a mapping is the sequence of its            *)
(* <<key, value>> pairs in insertion order, its keys distinct.             *)
(***************************************************************************)
EXTENDS Integers, Sequences, FiniteSets, TLC

(***************************************************************************)
(* Python values                                                           *)
(***************************************************************************)
PyNone == [t |-> "none"]
PyStr(s) == [t |-> "str", v |-> s]
PyNum(n) == [t |-> "num", v |-> n]
PyBool(b) == [t |-> "bool", v |-> b]
PyList(xs) == [t |-> "list", v |-> xs]
PyDict(kvs) == [t |-> "dict", v |-> kvs]

IsNone(x) == x.t = "none"
IsStr(x) == x.t = "str"
IsList(x) == x.t = "list"
IsDict(x) == x.t = "dict"

\* bool(x): None, "", 0, False, [] and {} are falsy.
Truthy(x) ==
  CASE x.t = "none" -> FALSE
    [] x.t = "str" -> x.v # <<>>
    [] x.t = "num" -> x.v # 0
    [] x.t = "bool" -> x.v
    [] x.t = "list" -> x.v # <<>>
    [] x.t = "dict" -> x.v # <<>>

\* x or y
PyOr(x, y) == IF Truthy(x) THEN x ELSE y

(***************************************************************************)
(* str methods                                                             *)
(***************************************************************************)
SLASH == "/"
SPACE == " "
DOT == "."

RECURSIVE LStripCh(_, _)
LStripCh(s, ch) ==
  IF s # <<>> /\ Head(s) = ch THEN LStripCh(Tail(s), ch) ELSE s

RECURSIVE RStripCh(_, _)
RStripCh(s, ch) ==
  IF s # <<>> /\ s[Len(s)] = ch THEN RStripCh(SubSeq(s, 1, Len(s) - 1), ch) ELSE s

\* s.strip(ch)
StripCh(s, ch) == LStripCh(RStripCh(s, ch), ch)

\* s.strip(): whitespace off both ends
Strip(s) == StripCh(s, SPACE)

\* s.rstrip("/") and s.strip("/")
RStripSlash(s) == RStripCh(s, SLASH)
StripSlash(s) == StripCh(s, SLASH)

\* s.split(sep): the pieces between separators, empty pieces kept.
RECURSIVE SplitAcc(_, _, _)
SplitAcc(s, sep, cur) ==
  IF s = <<>> THEN <<cur>>
  ELSE IF Head(s) = sep THEN <<cur>> \o SplitAcc(Tail(s), sep, <<>>)
  ELSE SplitAcc(Tail(s), sep, Append(cur, Head(s)))

Split(s, sep) == SplitAcc(s, sep, <<>>)

\* sep.join(parts)
RECURSIVE Join(_, _)
Join(parts, sep) ==
  IF parts = <<>> THEN <<>>
  ELSE IF Len(parts) = 1 THEN parts[1]
  ELSE parts[1] \o <<sep>> \o Join(Tail(parts), sep)

\* s.startswith(p)
StartsWith(s, p) == Len(s) >= Len(p) /\ SubSeq(s, 1, Len(p)) = p

\* the test of "if segment" / "if token" in a comprehension
NonEmptyStr(s) == s # <<>>

(***************************************************************************)
(* urllib.parse (CPython 3.11), for text without "?", "#", ";", "[", "]"   *)
(* and with the blank as its only whitespace.                              *)
(***************************************************************************)
COLON == ":"
LowerLetters ==
  {"a", "b", "c", "d", "e", "f", "g", "h", "i", "j", "k", "l", "m",
   "n", "o", "p", "q", "r", "s", "t", "u", "v", "w", "x", "y", "z"}
UpperLetters ==
  {"A", "B", "C", "D", "E", "F", "G", "H", "I", "J", "K", "L", "M",
   "N", "O", "P", "Q", "R", "S", "T", "U", "V", "W", "X", "Y", "Z"}
DecimalDigits == {"0", "1", "2", "3", "4", "5", "6", "7", "8", "9"}
scheme_chars == LowerLetters \cup UpperLetters \cup DecimalDigits \cup {"+", "-", "."}

\* c.lower()
LowerCh(c) ==
  CASE c = "A" -> "a" [] c = "B" -> "b" [] c = "C" -> "c" [] c = "D" -> "d"
    [] c = "E" -> "e" [] c = "F" -> "f" [] c = "G" -> "g" [] c = "H" -> "h"
    [] c = "I" -> "i" [] c = "J" -> "j" [] c = "K" -> "k" [] c = "L" -> "l"
    [] c = "M" -> "m" [] c = "N" -> "n" [] c = "O" -> "o" [] c = "P" -> "p"
    [] c = "Q" -> "q" [] c = "R" -> "r" [] c = "S" -> "s" [] c = "T" -> "t"
    [] c = "U" -> "u" [] c = "V" -> "v" [] c = "W" -> "w" [] c = "X" -> "x"
    [] c = "Y" -> "y" [] c = "Z" -> "z" [] OTHER -> c

\* s.lower()
Lower(s) == [i \in 1..Len(s) |-> LowerCh(s[i])]

\* s.find(ch, start) + 1, with start counted from 1: 0 when ch is not found
RECURSIVE Find(_, _, _)
Find(s, ch, i) ==
  IF i > Len(s) THEN 0
  ELSE IF s[i] = ch THEN i
  ELSE Find(s, ch, i + 1)

S_http == <<"h", "t", "t", "p">>
S_https == <<"h", "t", "t", "p", "s">>
\* urllib.parse.uses_relative and urllib.parse.uses_netloc
uses_relative ==
  {<<>>,
   <<"f", "t", "p">>,
   <<"h", "t", "t", "p">>,
   <<"g", "o", "p", "h", "e", "r">>,
   <<"n", "n", "t", "p">>,
   <<"i", "m", "a", "p">>,
   <<"w", "a", "i", "s">>,
   <<"f", "i", "l", "e">>,
   <<"h", "t", "t", "p", "s">>,
   <<"s", "h", "t", "t", "p">>,
   <<"m", "m", "s">>,
   <<"p", "r", "o", "s", "p", "e", "r", "o">>,
   <<"r", "t", "s", "p">>,
   <<"r", "t", "s", "p", "s">>,
   <<"r", "t", "s", "p", "u">>,
   <<"s", "f", "t", "p">>,
   <<"s", "v", "n">>,
   <<"s", "v", "n", "+", "s", "s", "h">>,
   <<"w", "s">>,
   <<"w", "s", "s">>}

uses_netloc ==
  {<<>>,
   <<"f", "t", "p">>,
   <<"h", "t", "t", "p">>,
   <<"g", "o", "p", "h", "e", "r">>,
   <<"n", "n", "t", "p">>,
   <<"t", "e", "l", "n", "e", "t">>,
   <<"i", "m", "a", "p">>,
   <<"w", "a", "i", "s">>,
   <<"f", "i", "l", "e">>,
   <<"m", "m", "s">>,
   <<"h", "t", "t", "p", "s">>,
   <<"s", "h", "t", "t", "p">>,
   <<"s", "n", "e", "w", "s">>,
   <<"p", "r", "o", "s", "p", "e", "r", "o">>,
   <<"r", "t", "s", "p">>,
   <<"r", "t", "s", "p", "s">>,
   <<"r", "t", "s", "p", "u">>,
   <<"r", "s", "y", "n", "c">>,
   <<"s", "v", "n">>,
   <<"s", "v", "n", "+", "s", "s", "h">>,
   <<"s", "f", "t", "p">>,
   <<"n", "f", "s">>,
   <<"g", "i", "t">>,
   <<"g", "i", "t", "+", "s", "s", "h">>,
   <<"w", "s">>,
   <<"w", "s", "s">>}

\* the end of the scheme: i when url[:i] is a scheme before a colon at i, else 0
SchemeEndAt(url, i) ==
  IF /\ i > 1
     /\ url[1] \in LowerLetters \cup UpperLetters
     /\ \A k \in 1..(i - 1) : url[k] \in scheme_chars
  THEN i ELSE 0

\* _splitnetloc: the text after "//" up to the "/" at j (no "/": j = 0), and the rest
NetlocAt(scheme, url, j) ==
  IF j = 0
  THEN [scheme |-> scheme, netloc |-> SubSeq(url, 3, Len(url)), path |-> <<>>]
  ELSE [scheme |-> scheme, netloc |-> SubSeq(url, 3, j - 1),
        path |-> SubSeq(url, j, Len(url))]

\* urlsplit once the scheme is off
AfterScheme(scheme, url) ==
  IF StartsWith(url, <<SLASH, SLASH>>) THEN NetlocAt(scheme, url, Find(url, SLASH, 3))
  ELSE [scheme |-> scheme, netloc |-> <<>>, path |-> url]

\* urlsplit of a url whose scheme ends at i (i = 0: it has none)
SplitAt(url, i, default_scheme) ==
  AfterScheme(IF i > 0 THEN Lower(SubSeq(url, 1, i - 1)) ELSE default_scheme,
              SubSeq(url, i + 1, Len(url)))

\* urlsplit of a url with its leading blanks off
SplitStripped(url, default_scheme) ==
  SplitAt(url, SchemeEndAt(url, Find(url, COLON, 1)), default_scheme)

\* urlparse(url, default_scheme): scheme, netloc and path
UrlParse(url, default_scheme) == SplitStripped(LStripCh(url, SPACE), default_scheme)

\* urlunsplit: "//", the netloc and the path, when there is a netloc to write
WithNetloc(scheme, netloc, path) ==
  IF \/ netloc # <<>>
     \/ (scheme # <<>> /\ scheme \in uses_netloc /\ ~StartsWith(path, <<SLASH, SLASH>>))
  THEN <<SLASH, SLASH>> \o netloc
       \o (IF path # <<>> /\ Head(path) # SLASH THEN <<SLASH>> ELSE <<>>)
       \o path
  ELSE path

\* urlunparse((scheme, netloc, path, "", "", ""))
UrlUnparse(scheme, netloc, path) ==
  IF scheme # <<>> THEN scheme \o <<COLON>> \o WithNetloc(scheme, netloc, path)
  ELSE WithNetloc(scheme, netloc, path)

\* the loop of urljoin that resolves "." and ".." segments
RECURSIVE ResolveDots(_, _)
ResolveDots(segments, resolved) ==
  IF segments = <<>> THEN resolved
  ELSE IF Head(segments) = <<DOT, DOT>>
    THEN ResolveDots(Tail(segments),
                     IF resolved = <<>> THEN resolved
                     ELSE SubSeq(resolved, 1, Len(resolved) - 1))
  ELSE IF Head(segments) = <<DOT>> THEN ResolveDots(Tail(segments), resolved)
  ELSE ResolveDots(Tail(segments), Append(resolved, Head(segments)))

\* segments[1:-1] = filter(None, segments[1:-1])
DropInnerEmpty(segments) ==
  IF Len(segments) <= 2 THEN segments
  ELSE <<segments[1]>>
       \o SelectSeq(SubSeq(segments, 2, Len(segments) - 1), NonEmptyStr)
       \o <<segments[Len(segments)]>>

\* base_parts: the segments of the base path, its last one dropped unless empty
DropFile(parts) ==
  IF parts[Len(parts)] # <<>> THEN SubSeq(parts, 1, Len(parts) - 1) ELSE parts

\* the segments urljoin resolves
JoinSegments(bpath, path) ==
  IF StartsWith(path, <<SLASH>>) THEN Split(path, SLASH)
  ELSE DropInnerEmpty(DropFile(Split(bpath, SLASH)) \o Split(path, SLASH))

\* "/".join(resolved_path) or "/"
PathText(joined) == IF joined = <<>> THEN <<SLASH>> ELSE joined

\* the resolved path of the segments
ResolvedPath(segments) ==
  PathText(Join(IF segments[Len(segments)] \in {<<DOT>>, <<DOT, DOT>>}
                THEN Append(ResolveDots(segments, <<>>), <<>>)
                ELSE ResolveDots(segments, <<>>),
                SLASH))

\* urljoin once base (b) and url (u) are parsed
JoinParsed(url, b, u) ==
  IF u.scheme # b.scheme \/ u.scheme \notin uses_relative THEN url
  ELSE IF u.netloc # <<>> THEN UrlUnparse(u.scheme, u.netloc, u.path)
  ELSE IF u.path = <<>> THEN UrlUnparse(u.scheme, b.netloc, b.path)
  ELSE UrlUnparse(u.scheme, b.netloc, ResolvedPath(JoinSegments(b.path, u.path)))

JoinWithBase(url, b) == JoinParsed(url, b, UrlParse(url, b.scheme))

\* urljoin(base, url)
UrlJoin(base, url) ==
  IF base = <<>> THEN url
  ELSE IF url = <<>> THEN base
  ELSE JoinWithBase(url, UrlParse(base, <<>>))

(***************************************************************************)
(* MCPOConnector.__init__                                                  *)
(***************************************************************************)
Raised(kind, msg) == [ok |-> FALSE, kind |-> kind, msg |-> msg]
Returned(value) == [ok |-> TRUE, value |-> value]

OPENAPI_JSON == <<"o", "p", "e", "n", "a", "p", "i", ".", "j", "s", "o", "n">>

\* x.strip() if x else None
StripOrNone(x) == IF Truthy(x) THEN PyStr(Strip(x.v)) ELSE PyNone

\* [token.strip() for token in result_path.split(".") if token.strip()]
\*   if result_path else []
ResultPathTokens(result_path) ==
  IF ~Truthy(result_path) THEN <<>>
  ELSE LET tokens == Split(result_path.v, DOT)
           stripped == [i \in 1..Len(tokens) |-> Strip(tokens[i])]
       IN SelectSeq(stripped, NonEmptyStr)

\* a slip: the server identifier is left out of the address
ServerBaseWithoutServer(base_url, server) == RStripSlash(base_url)

\* server_base of __init__: base_url, "/" and server, trailing separators off
ServerBase(base_url, server) ==
  RStripSlash(IF server # <<>> THEN base_url \o <<SLASH>> \o server ELSE base_url)

\* candidate.startswith(("http://", "https://"))
IsAbsoluteHttp(candidate) ==
  \/ StartsWith(candidate, S_http \o <<COLON, SLASH, SLASH>>)
  \/ StartsWith(candidate, S_https \o <<COLON, SLASH, SLASH>>)

\* the openapi_url attribute that __init__ computes
InitOpenapiUrl(server_base, openapi_url) ==
  IF Truthy(openapi_url)
  THEN LET candidate == Strip(openapi_url.v)
       IN IF candidate # <<>>
          THEN IF IsAbsoluteHttp(candidate) THEN PyStr(candidate)
               ELSE PyStr(UrlJoin(server_base \o <<SLASH>>, candidate))
          ELSE PyNone
  ELSE IF server_base # <<>>
       THEN PyStr(UrlJoin(server_base \o <<SLASH>>, OPENAPI_JSON))
       ELSE PyNone

\* MCPOConnector(base_url, server, tool, api_key=..., ...): the new object, or
\* the ValueError it raises.  base_url and server are text; the rest are values.
MCPOConnector(a) ==
  IF a.base_url = <<>> THEN Raised("ValueError", "MCPO base URL cannot be empty")
  ELSE IF a.server = <<>>
    THEN Raised("ValueError", "MCPO server identifier cannot be empty")
  ELSE IF ~IsNone(a.tool) /\ Strip(a.tool.v) = <<>>
    THEN Raised("ValueError", "MCPO tool name cannot be empty")
  ELSE
    LET base_url == RStripSlash(a.base_url)
        server == StripSlash(a.server)
    IN Returned([base_url |-> base_url,
                 server |-> server,
                 tool |-> IF IsNone(a.tool) THEN PyNone
                          ELSE PyStr(StripSlash(Strip(a.tool.v))),
                 api_key |-> StripOrNone(a.api_key),
                 query_param |-> StripOrNone(a.query_param),
                 static_args |-> PyOr(a.static_args, PyDict(<<>>)),
                 result_path_tokens |-> ResultPathTokens(a.result_path),
                 timeout |-> a.timeout,
                 openapi_url |-> InitOpenapiUrl(ServerBase(base_url, server),
                                                a.openapi_url)])

\* with_tool(self, tool)
with_tool(self, tool) ==
  MCPOConnector([base_url |-> self.base_url,
                 server |-> self.server,
                 tool |-> tool,
                 api_key |-> self.api_key,
                 query_param |-> self.query_param,
                 static_args |-> self.static_args,
                 result_path |-> IF self.result_path_tokens # <<>>
                                 THEN PyStr(Join(self.result_path_tokens, DOT))
                                 ELSE PyNone,
                 timeout |-> self.timeout,
                 openapi_url |-> self.openapi_url])

(***************************************************************************)
(* dict, str(), repr() and json.dumps, for text whose characters need no   *)
(* escape (no quote, backslash or control character) and whole numbers     *)
(***************************************************************************)
\* d.get(key): the value stored under key, else None
RECURSIVE PairsGet(_, _)
PairsGet(kvs, key) ==
  IF kvs = <<>> THEN PyNone
  ELSE IF Head(kvs)[1] = key THEN Head(kvs)[2]
  ELSE PairsGet(Tail(kvs), key)

DictGet(d, key) == PairsGet(d.v, key)

\* key in d
HasKey(d, key) == \E i \in 1..Len(d.v) : d.v[i][1] = key

\* d[key] = value: in place when the key is there, appended otherwise
PairsSet(kvs, key, value) ==
  IF \E i \in 1..Len(kvs) : kvs[i][1] = key
  THEN [i \in 1..Len(kvs) |-> IF kvs[i][1] = key THEN <<key, value>> ELSE kvs[i]]
  ELSE Append(kvs, <<key, value>>)

\* d.update(other)
RECURSIVE PairsUpdate(_, _)
PairsUpdate(kvs, other) ==
  IF other = <<>> THEN kvs
  ELSE PairsUpdate(PairsSet(kvs, Head(other)[1], Head(other)[2]), Tail(other))

DigitCh(d) ==
  CASE d = 0 -> "0" [] d = 1 -> "1" [] d = 2 -> "2" [] d = 3 -> "3" [] d = 4 -> "4"
    [] d = 5 -> "5" [] d = 6 -> "6" [] d = 7 -> "7" [] d = 8 -> "8" [] d = 9 -> "9"

\* str(n) for a whole number n
RECURSIVE NatToStr(_)
NatToStr(n) == IF n < 10 THEN <<DigitCh(n)>> ELSE Append(NatToStr(n \div 10), DigitCh(n % 10))

IntToStr(n) == IF n < 0 THEN <<"-">> \o NatToStr(-n) ELSE NatToStr(n)

Spaces(n) == [i \in 1..n |-> SPACE]
NEWLINE == "\n"
QUOTE == "\""
APOSTROPHE == "'"
S_null == <<"n", "u", "l", "l">>
S_true == <<"t", "r", "u", "e">>
S_false == <<"f", "a", "l", "s", "e">>
S_None == <<"N", "o", "n", "e">>
S_True == <<"T", "r", "u", "e">>
S_False == <<"F", "a", "l", "s", "e">>

\* json.dumps(x, ensure_ascii=False, indent=2), x nested `level` deep
RECURSIVE JsonDumps(_, _)
RECURSIVE JsonElems(_, _, _)
JsonDumps(x, level) ==
  CASE x.t = "none" -> S_null
    [] x.t = "bool" -> IF x.v THEN S_true ELSE S_false
    [] x.t = "num" -> IntToStr(x.v)
    [] x.t = "str" -> <<QUOTE>> \o x.v \o <<QUOTE>>
    [] x.t = "list" ->
         IF x.v = <<>> THEN <<"[", "]">>
         ELSE <<"[", NEWLINE>> \o JsonElems(x.v, FALSE, level + 1)
              \o <<NEWLINE>> \o Spaces(2 * level) \o <<"]">>
    [] x.t = "dict" ->
         IF x.v = <<>> THEN <<"{", "}">>
         ELSE <<"{", NEWLINE>> \o JsonElems(x.v, TRUE, level + 1)
              \o <<NEWLINE>> \o Spaces(2 * level) \o <<"}">>

\* the members of a list (or, keyed, of a mapping), one per line
JsonElems(xs, keyed, level) ==
  LET first == Spaces(2 * level)
               \o (IF keyed
                   THEN <<QUOTE>> \o Head(xs)[1] \o <<QUOTE, COLON, SPACE>>
                        \o JsonDumps(Head(xs)[2], level)
                   ELSE JsonDumps(Head(xs), level))
  IN IF Len(xs) = 1 THEN first
     ELSE first \o <<",", NEWLINE>> \o JsonElems(Tail(xs), keyed, level)

\* repr(x)
RECURSIVE Repr(_)
RECURSIVE ReprElems(_, _)
Repr(x) ==
  CASE x.t = "none" -> S_None
    [] x.t = "bool" -> IF x.v THEN S_True ELSE S_False
    [] x.t = "num" -> IntToStr(x.v)
    [] x.t = "str" -> <<APOSTROPHE>> \o x.v \o <<APOSTROPHE>>
    [] x.t = "list" -> <<"[">> \o ReprElems(x.v, FALSE) \o <<"]">>
    [] x.t = "dict" -> <<"{">> \o ReprElems(x.v, TRUE) \o <<"}">>

ReprElems(xs, keyed) ==
  IF xs = <<>> THEN <<>>
  ELSE LET first == IF keyed
                    THEN Repr(PyStr(Head(xs)[1])) \o <<COLON, SPACE>> \o Repr(Head(xs)[2])
                    ELSE Repr(Head(xs))
       IN IF Len(xs) = 1 THEN first
          ELSE first \o <<",", SPACE>> \o ReprElems(Tail(xs), keyed)

\* str(x)
PyStrOf(x) == IF IsStr(x) THEN x.v ELSE Repr(x)

\* MCPOConnector._stringify(value)
Stringify(value) == IF IsStr(value) THEN value.v ELSE JsonDumps(value, 0)

(***************************************************************************)
(* MCPOConnector._normalize_item                                           *)
(***************************************************************************)
K_title == <<"t", "i", "t", "l", "e">>
K_name == <<"n", "a", "m", "e">>
K_id == <<"i", "d">>
K_url == <<"u", "r", "l">>
K_link == <<"l", "i", "n", "k">>
K_description == <<"d", "e", "s", "c", "r", "i", "p", "t", "i", "o", "n">>
K_summary == <<"s", "u", "m", "m", "a", "r", "y">>
K_snippet == <<"s", "n", "i", "p", "p", "e", "t">>
K_content == <<"c", "o", "n", "t", "e", "n", "t">>
K_results == <<"r", "e", "s", "u", "l", "t", "s">>
K_items == <<"i", "t", "e", "m", "s">>
K_data == <<"d", "a", "t", "a">>
K_documents == <<"d", "o", "c", "u", "m", "e", "n", "t", "s">>
S_MCPO_Result == <<"M", "C", "P", "O", " ", "R", "e", "s", "u", "l", "t", " ">>
DescriptionLimit == 200

\* content[:n]
Take(s, n) == SubSeq(s, 1, IF Len(s) < n THEN Len(s) ELSE n)

\* a slip: name is looked at before title
ItemTitleNameFirst(item, fallback_title) ==
  IF IsDict(item)
  THEN PyStrOf(PyOr(DictGet(item, K_name),
               PyOr(DictGet(item, K_title),
               PyOr(DictGet(item, K_id), PyStr(fallback_title)))))
  ELSE fallback_title

\* title: str(item.get("title") or item.get("name") or item.get("id") or title)
ItemTitle(item, fallback_title) ==
  IF IsDict(item)
  THEN PyStrOf(PyOr(DictGet(item, K_title),
               PyOr(DictGet(item, K_name),
               PyOr(DictGet(item, K_id), PyStr(fallback_title)))))
  ELSE fallback_title

\* url_value = item.get("url") or item.get("link")
ItemUrlValue(item) ==
  IF IsDict(item) THEN PyOr(DictGet(item, K_url), DictGet(item, K_link)) ELSE PyNone

\* description_value = item.get("description") or item.get("summary") or
\*   item.get("snippet"), taken when it is a str
ItemDescriptionValue(item) ==
  IF IsDict(item)
  THEN PyOr(DictGet(item, K_description),
       PyOr(DictGet(item, K_summary), DictGet(item, K_snippet)))
  ELSE PyNone

ItemDescription(item) ==
  IF IsStr(ItemDescriptionValue(item)) THEN ItemDescriptionValue(item).v ELSE <<>>

\* content of the three branches: mapping, str, anything else
ItemContent(item) ==
  IF IsDict(item)
  THEN IF IsNone(DictGet(item, K_content)) THEN JsonDumps(item, 0)
       ELSE Stringify(DictGet(item, K_content))
  ELSE IF IsStr(item) THEN item.v
  ELSE Stringify(item)

\* if not description and content: description = content[:200]
FillDescription(description, content) ==
  IF description = <<>> /\ content # <<>> THEN Take(content, DescriptionLimit)
  ELSE description

\* _normalize_item(self, item, position): the MCPOResult
NormalizeItem(item, position) ==
  [title |-> ItemTitle(item, S_MCPO_Result \o IntToStr(position)),
   description |-> FillDescription(ItemDescription(item), ItemContent(item)),
   content |-> ItemContent(item),
   metadata |-> IF IsDict(item) THEN item ELSE PyDict(<<>>),
   url |-> IF IsStr(ItemUrlValue(item)) THEN ItemUrlValue(item) ELSE PyNone]

(***************************************************************************)
(* MCPOConnector._extract_result_container                                 *)
(***************************************************************************)
SUPERSCRIPT_TWO == "²"
\* str.isdigit() holds of the decimal digits and of digits such as the
\* superscript two, which int() does not read.
IsDigitCh(c) == c \in DecimalDigits \cup {SUPERSCRIPT_TWO}
IsDigit(token) == token # <<>> /\ \A i \in 1..Len(token) : IsDigitCh(token[i])

\* int(token) does not raise
IntReads(token) == token # <<>> /\ \A i \in 1..Len(token) : token[i] \in DecimalDigits

DigitValue(c) ==
  CASE c = "0" -> 0 [] c = "1" -> 1 [] c = "2" -> 2 [] c = "3" -> 3 [] c = "4" -> 4
    [] c = "5" -> 5 [] c = "6" -> 6 [] c = "7" -> 7 [] c = "8" -> 8 [] c = "9" -> 9

\* int(token), for a token int() reads
RECURSIVE IntOf(_)
IntOf(token) ==
  IF token = <<>> THEN 0
  ELSE 10 * IntOf(SubSeq(token, 1, Len(token) - 1)) + DigitValue(token[Len(token)])

\* the loop over self.result_path_tokens
RECURSIVE WalkTokens(_, _)
WalkTokens(current, tokens) ==
  IF tokens = <<>> THEN Returned(current)
  ELSE LET token == Head(tokens) IN
    IF IsDict(current) THEN WalkTokens(DictGet(current, token), Tail(tokens))
    ELSE IF IsList(current) /\ IsDigit(token)
      THEN IF ~IntReads(token)
           THEN Raised("ValueError", "invalid literal for int() with base 10")
           ELSE IF IntOf(token) < Len(current.v)
                THEN WalkTokens(current.v[IntOf(token) + 1], Tail(tokens))
                ELSE Returned(PyNone)
    ELSE Returned(PyNone)

ConventionKeys == <<K_results, K_items, K_data, K_documents>>

\* for key in ("results", "items", "data", "documents"): the first list found
RECURSIVE ProbeKeys(_, _)
ProbeKeys(current, keys) ==
  IF keys = <<>> THEN current
  ELSE IF IsList(DictGet(current, Head(keys))) THEN DictGet(current, Head(keys))
  ELSE ProbeKeys(current, Tail(keys))

\* a slip: the first convention key that is present decides, list or not
RECURSIVE ProbeFirstPresent(_, _)
ProbeFirstPresent(current, keys) ==
  IF keys = <<>> THEN current
  ELSE IF HasKey(current, Head(keys))
    THEN IF IsList(DictGet(current, Head(keys))) THEN DictGet(current, Head(keys))
         ELSE current
  ELSE ProbeFirstPresent(current, Tail(keys))

ProbeConventionKeysFirstPresent(current) == ProbeFirstPresent(current, ConventionKeys)

ProbeConventionKeys(current) == ProbeKeys(current, ConventionKeys)

\* _extract_result_container(self, data)
ExtractResultContainer(self, data) ==
  LET walked == WalkTokens(data, self.result_path_tokens)
  IN IF ~walked.ok THEN walked
     ELSE IF IsDict(walked.value) THEN Returned(ProbeConventionKeys(walked.value))
     ELSE walked

(***************************************************************************)
(* MCPOConnector.search and _post                                          *)
(***************************************************************************)
\* the payload search() builds, and self.static_args once it is built
\* a slip: the static arguments are merged over the query
BuildPayloadStaticWins(self, query) ==
  LET with_query == IF Truthy(self.query_param)
                    THEN << <<self.query_param.v, PyStr(query)>> >>
                    ELSE <<>>
      payload == IF Truthy(self.static_args)
                 THEN PairsUpdate(with_query, self.static_args.v)
                 ELSE with_query
  IN [payload |-> PyDict(payload), static_args |-> self.static_args]

BuildPayload(self, query) ==
  LET with_static == IF Truthy(self.static_args)
                     THEN PairsUpdate(<<>>, self.static_args.v)
                     ELSE <<>>
      payload == IF Truthy(self.query_param)
                 THEN PairsSet(with_static, self.query_param.v, PyStr(query))
                 ELSE with_static
  IN [payload |-> PyDict(payload), static_args |-> self.static_args]

\* a slip: "elif normalized_payload:" drops "", 0 and False
IsSingleItemTruthy(normalized_payload) == Truthy(normalized_payload)

\* which extracted payloads give one result: "elif normalized_payload is not None"
IsSingleItem(normalized_payload) == ~IsNone(normalized_payload)

\* the results search() makes of the extracted payload
ResultsOf(normalized_payload) ==
  IF IsList(normalized_payload)
  THEN [i \in 1..Len(normalized_payload.v) |-> NormalizeItem(normalized_payload.v[i], i)]
  ELSE IF IsSingleItem(normalized_payload) THEN <<NormalizeItem(normalized_payload, 1)>>
  ELSE <<>>

\* a local variable that was never assigned
Unset == [t |-> "unset"]

\* search() from the extraction on: its locals and what it returns or raises
AfterExtract(response_data, extracted) ==
  IF ~extracted.ok
  THEN [response_data |-> response_data, normalized_payload |-> Unset, result |-> extracted]
  ELSE [response_data |-> response_data, normalized_payload |-> extracted.value,
        result |-> Returned(ResultsOf(extracted.value))]

\* search() after "await self._post(payload)", posted being what _post returned or raised
AfterPost(self, posted) ==
  IF ~posted.ok
  THEN [response_data |-> Unset, normalized_payload |-> Unset, result |-> posted]
  ELSE AfterExtract(posted.value, ExtractResultContainer(self, posted.value))

\* the address _post sends to
PostUrl(self) ==
  UrlJoin(RStripSlash(self.base_url \o <<SLASH>> \o self.server) \o <<SLASH>>,
          self.tool.v)

S_Bearer == <<"B", "e", "a", "r", "e", "r", " ">>
\* the Authorization header, None when no credential is set
AuthHeader(self) ==
  IF Truthy(self.api_key) THEN PyStr(S_Bearer \o self.api_key.v) ELSE PyNone

DefaultTimeout == 30
\* self.timeout or 30.0
EffectiveTimeout(self) == IF Truthy(self.timeout) THEN self.timeout.v ELSE DefaultTimeout

(***************************************************************************)
(* MCPOConnector._extract_tools_from_openapi                               *)
(***************************************************************************)
K_paths == <<"p", "a", "t", "h", "s">>
K_servers == <<"s", "e", "r", "v", "e", "r", "s">>
S_post == <<"p", "o", "s", "t">>
S_openapi == <<"o", "p", "e", "n", "a", "p", "i">>
S_docs == <<"d", "o", "c", "s">>

\* [segment for segment in text.split("/") if segment]
NonEmptySegments(text) == SelectSeq(Split(text, SLASH), NonEmptyStr)

\* the path a declared server entry contributes to base_paths (<<>>: none)
ServerEntryPath(server_entry) ==
  IF ~IsDict(server_entry) \/ ~IsStr(DictGet(server_entry, K_url)) THEN <<>>
  ELSE LET url_value == DictGet(server_entry, K_url).v
           parsed_path == UrlParse(url_value, <<>>).path
           path == IF parsed_path # <<>> THEN parsed_path
                   ELSE IF StartsWith(url_value, <<SLASH>>) THEN url_value
                   ELSE <<SLASH>> \o url_value
       IN NonEmptySegments(path)

\* the list with each element kept at its first occurrence
RECURSIVE Unique(_, _)
Unique(xs, acc) ==
  IF xs = <<>> THEN acc
  ELSE IF \E i \in 1..Len(acc) : acc[i] = Head(xs) THEN Unique(Tail(xs), acc)
  ELSE Unique(Tail(xs), Append(acc, Head(xs)))

\* base_paths: the server identifier's segments, then the declared servers' paths
BasePaths(self, payload) ==
  LET server_prefix == StripSlash(self.server)
      own == IF server_prefix # <<>> THEN <<NonEmptySegments(server_prefix)>> ELSE <<>>
      servers == DictGet(payload, K_servers)
      declared == IF IsList(servers)
                  THEN SelectSeq([i \in 1..Len(servers.v) |-> ServerEntryPath(servers.v[i])],
                                 NonEmptyStr)
                  ELSE <<>>
  IN Unique(own \o declared, <<>>)

\* segment and not segment.startswith("{")
IsPlainSegment(segment) == segment # <<>> /\ Head(segment) # "{"

\* the segments of a raw path: empty ones and placeholders dropped
PathSegments(raw_path) == SelectSeq(Split(StripSlash(raw_path), SLASH), IsPlainSegment)

\* the loop that strips the first base path the segments start with
RECURSIVE StripBasePath(_, _)
StripBasePath(segments, base_paths) ==
  IF base_paths = <<>> THEN segments
  ELSE LET base_path == Head(base_paths) IN
    IF base_path # <<>> /\ Len(segments) >= Len(base_path)
       /\ SubSeq(segments, 1, Len(base_path)) = base_path
    THEN SubSeq(segments, Len(base_path) + 1, Len(segments))
    ELSE StripBasePath(segments, Tail(base_paths))

\* a slip: any operation at all makes the path a tool
DeclaresAnyOperation(operations) == Len(operations.v) > 0

\* any(method.lower() == "post" for method in operations)
DeclaresPost(operations) ==
  \E i \in 1..Len(operations.v) : Lower(operations.v[i][1]) = S_post

\* lowered in {"openapi.json", "openapi", "docs"}
IsReservedName(candidate_key) == Lower(candidate_key) \in {OPENAPI_JSON, S_openapi, S_docs}

\* the tool name one entry of paths contributes: None when the entry is skipped
ToolCandidate(self, raw_path, operations, base_paths) ==
  IF ~IsDict(operations) THEN PyNone
  ELSE LET segments == PathSegments(raw_path)
           normalized_segments == StripBasePath(segments, base_paths)
       IN IF segments = <<>> \/ normalized_segments = <<>> THEN PyNone
          ELSE IF ~DeclaresPost(operations) THEN PyNone
          ELSE LET candidate == normalized_segments[Len(normalized_segments)]
               IN IF candidate = <<>> \/ candidate = StripSlash(self.server) THEN PyNone
                  ELSE IF IsReservedName(Strip(candidate)) THEN PyNone
                  ELSE PyStr(Strip(candidate))

\* the loop over paths.items(), tools being the names found so far
RECURSIVE CollectTools(_, _, _, _)
CollectTools(self, entries, base_paths, tools) ==
  IF entries = <<>> THEN tools
  ELSE LET found == ToolCandidate(self, Head(entries)[1], Head(entries)[2], base_paths)
       IN CollectTools(self, Tail(entries), base_paths,
            IF IsNone(found) \/ (\E i \in 1..Len(tools) : tools[i] = found.v)
            THEN tools ELSE Append(tools, found.v))

\* _extract_tools_from_openapi(self, payload)
ExtractToolsFromOpenapi(self, payload) ==
  IF ~IsDict(payload) THEN <<>>
  ELSE IF ~IsDict(DictGet(payload, K_paths)) THEN <<>>
  ELSE CollectTools(self, DictGet(payload, K_paths).v, BasePaths(self, payload), <<>>)

(***************************************************************************)
(* The calls and the HTTP exchange.  A call runs up to its one await (the  *)
(* request is on the wire), and from the reply to its return or raise.     *)
(***************************************************************************)
NoRequest == [method |-> "none"]
Pending == [ok |-> FALSE, kind |-> "pending", msg |-> ""]
HttpFailures == {"HTTPStatusError", "ConnectError", "TimeoutException"}

\* _post up to "await client.post": the tool check, then the one request
PostBegin(self, payload) ==
  IF ~Truthy(self.tool)
  THEN [pc |-> "idle", request |-> NoRequest, sent |-> 0,
        result |-> Raised("ValueError", "MCPO tool name has not been configured")]
  ELSE [pc |-> "post",
        request |-> [method |-> "POST", url |-> PostUrl(self), json |-> payload,
                     authorization |-> AuthHeader(self),
                     timeout |-> EffectiveTimeout(self)],
        sent |-> 1, result |-> Pending]

\* list_tools up to "await client.get": the address check, then the one request
GetBegin(self) ==
  IF ~Truthy(self.openapi_url)
  THEN [pc |-> "idle", request |-> NoRequest, sent |-> 0,
        result |-> Raised("ValueError", "MCPO OpenAPI URL is not configured")]
  ELSE [pc |-> "get",
        request |-> [method |-> "GET", url |-> self.openapi_url.v, json |-> PyNone,
                     authorization |-> AuthHeader(self),
                     timeout |-> EffectiveTimeout(self)],
        sent |-> 1, result |-> Pending]

\* a slip: the failed request is sent once more
OnHttpFailureRetry(kind, sent_so_far, pending_request) ==
  [pc |-> "again", request |-> pending_request, sent |-> sent_so_far + 1,
   result |-> Pending]

\* client.post / client.get or raise_for_status raises: the error leaves the call
OnHttpFailure(kind, sent_so_far, pending_request) ==
  [pc |-> "idle", request |-> NoRequest, sent |-> sent_so_far,
   result |-> Raised(kind, "")]

\* _post after the reply: the parsed body, the text of a body that does not
\* parse, or the decoding error when the reply declared JSON
PostReturn(reply) ==
  IF reply.parses THEN Returned(reply.data)
  ELSE IF reply.declared_json THEN Raised("JSONDecodeError", "")
  ELSE Returned(PyStr(reply.text))

\* search() after the reply
PostFinish(self, reply) == AfterPost(self, PostReturn(reply))

\* list_tools once the client is closed: its local data and the names it returns
GetFinish(self, data) ==
  [response_data |-> data, normalized_payload |-> Unset,
   result |-> Returned(ExtractToolsFromOpenapi(self, data))]

\* list_tools after a reply that does not parse: data unbound, the raise
GetInvalid ==
  [response_data |-> Unset, normalized_payload |-> Unset,
   result |-> Raised("ValueError", "MCPO OpenAPI endpoint did not return valid JSON")]

\* discover_tools(cls, base_url=..., server=..., api_key=..., openapi_url=..., timeout=...)
DiscoverConnector(a) ==
  MCPOConnector([base_url |-> a.base_url, server |-> a.server, tool |-> PyNone,
                 api_key |-> a.api_key, query_param |-> PyStr(<<"q", "u", "e", "r", "y">>),
                 static_args |-> PyNone, result_path |-> PyNone,
                 timeout |-> a.timeout, openapi_url |-> a.openapi_url])

(***************************************************************************)
(* json.loads and float(), for the texts the configurations hold: JSON     *)
(* without escapes, fractions or exponents; spaces as the only whitespace  *)
(***************************************************************************)
PyFloat(n) == [t |-> "float", v |-> n]

\* the floats that are no number: inf, -inf and nan
PyFloatInf == [t |-> "float", special |-> "inf"]
PyFloatMinusInf == [t |-> "float", special |-> "-inf"]
PyFloatNaN == [t |-> "float", special |-> "nan"]

S_NaN == <<"N", "a", "N">>
S_Infinity == <<"I", "n", "f", "i", "n", "i", "t", "y">>
S_MinusInfinity == <<"-", "I", "n", "f", "i", "n", "i", "t", "y">>

NoParse == [ok |-> FALSE, value |-> PyNone, next |-> 0]
Parsed(value, next) == [ok |-> TRUE, value |-> value, next |-> next]

\* the first index from i on that holds no whitespace
RECURSIVE SkipWs(_, _)
SkipWs(s, i) == IF i <= Len(s) /\ s[i] = SPACE THEN SkipWs(s, i + 1) ELSE i

\* the first index from i on that holds no digit
RECURSIVE SkipDigits(_, _)
SkipDigits(s, i) == IF i <= Len(s) /\ s[i] \in DecimalDigits THEN SkipDigits(s, i + 1) ELSE i

HasAt(s, i, word) == i + Len(word) - 1 <= Len(s) /\ SubSeq(s, i, i + Len(word) - 1) = word

\* a string: from the quote at i to the next quote
ParseStringTo(s, i, close) ==
  IF close = 0 THEN NoParse ELSE Parsed(PyStr(SubSeq(s, i + 1, close - 1)), close + 1)

ParseString(s, i) == ParseStringTo(s, i, Find(s, QUOTE, i + 1))

\* a whole number: digits from i to stop - 1, no leading zero before others
ParseDigits(s, i, stop, sign) ==
  IF stop = i THEN NoParse
  ELSE IF s[i] = "0" /\ stop > i + 1 THEN Parsed(PyNum(0), i + 1)
  ELSE Parsed(PyNum(sign * IntOf(SubSeq(s, i, stop - 1))), stop)

ParseNumber(s, i) ==
  IF s[i] = "-" THEN ParseDigits(s, i + 1, SkipDigits(s, i + 1), -1)
  ELSE ParseDigits(s, i, SkipDigits(s, i), 1)

RECURSIVE ParseValue(_, _)
RECURSIVE ParseElements(_, _, _)
RECURSIVE ParseMembers(_, _, _)

\* after an element of an array: "]" ends it, "," asks for another element
AfterElement(s, i, elements) ==
  IF i > Len(s) THEN NoParse
  ELSE IF s[i] = "]" THEN Parsed(PyList(elements), i + 1)
  ELSE IF s[i] = "," THEN ParseElements(s, SkipWs(s, i + 1), elements)
  ELSE NoParse

ElementParsed(s, element, elements) ==
  IF ~element.ok THEN NoParse
  ELSE AfterElement(s, SkipWs(s, element.next), Append(elements, element.value))

ParseElements(s, i, elements) == ElementParsed(s, ParseValue(s, i), elements)

\* after a member of an object: "}" ends it, "," asks for another member
AfterMember(s, i, members) ==
  IF i > Len(s) THEN NoParse
  ELSE IF s[i] = "}" THEN Parsed(PyDict(members), i + 1)
  ELSE IF s[i] = "," THEN ParseMembers(s, SkipWs(s, i + 1), members)
  ELSE NoParse

MemberParsed(s, key, value, members) ==
  IF ~value.ok THEN NoParse
  ELSE AfterMember(s, SkipWs(s, value.next), PairsSet(members, key.value.v, value.value))

AfterKey(s, key, i, members) ==
  IF i > Len(s) \/ s[i] # COLON THEN NoParse
  ELSE MemberParsed(s, key, ParseValue(s, SkipWs(s, i + 1)), members)

KeyParsed(s, key, members) ==
  IF ~key.ok THEN NoParse ELSE AfterKey(s, key, SkipWs(s, key.next), members)

ParseMembers(s, i, members) ==
  IF i > Len(s) \/ s[i] # QUOTE THEN NoParse
  ELSE KeyParsed(s, ParseString(s, i), members)

ParseArray(s, i) ==
  IF i <= Len(s) /\ s[i] = "]" THEN Parsed(PyList(<<>>), i + 1)
  ELSE ParseElements(s, i, <<>>)

ParseObject(s, i) ==
  IF i <= Len(s) /\ s[i] = "}" THEN Parsed(PyDict(<<>>), i + 1)
  ELSE ParseMembers(s, i, <<>>)

ParseValue(s, i) ==
  IF i > Len(s) THEN NoParse
  ELSE IF s[i] = QUOTE THEN ParseString(s, i)
  ELSE IF s[i] = "[" THEN ParseArray(s, SkipWs(s, i + 1))
  ELSE IF s[i] = "{" THEN ParseObject(s, SkipWs(s, i + 1))
  ELSE IF HasAt(s, i, S_null) THEN Parsed(PyNone, i + Len(S_null))
  ELSE IF HasAt(s, i, S_true) THEN Parsed(PyBool(TRUE), i + Len(S_true))
  ELSE IF HasAt(s, i, S_false) THEN Parsed(PyBool(FALSE), i + Len(S_false))
  ELSE IF HasAt(s, i, S_NaN) THEN Parsed(PyFloatNaN, i + Len(S_NaN))
  ELSE IF HasAt(s, i, S_Infinity) THEN Parsed(PyFloatInf, i + Len(S_Infinity))
  ELSE IF HasAt(s, i, S_MinusInfinity)
  THEN Parsed(PyFloatMinusInf, i + Len(S_MinusInfinity))
  ELSE ParseNumber(s, i)

WholeText(s, parsed) ==
  IF parsed.ok /\ SkipWs(s, parsed.next) > Len(s) THEN Returned(parsed.value)
  ELSE Raised("JSONDecodeError", "")

\* json.loads(s)
JsonLoads(s) == WholeText(s, ParseValue(s, SkipWs(s, 1)))

\* the digits of a float text: digits, single underscores between them
FloatDigitsRead(digits) ==
  /\ digits # <<>>
  /\ \A i \in 1..Len(digits) : digits[i] \in DecimalDigits \cup {"_"}
  /\ digits[1] # "_" /\ digits[Len(digits)] # "_"
  /\ \A i \in 1..(Len(digits) - 1) : ~(digits[i] = "_" /\ digits[i + 1] = "_")

IsDecimalDigit(c) == c \in DecimalDigits

S_inf == <<"i", "n", "f">>
S_infinity == <<"i", "n", "f", "i", "n", "i", "t", "y">>
S_nan == <<"n", "a", "n">>

\* float(text) once the sign is off: inf, infinity and nan in any case, or digits
FloatOfUnsigned(unsigned, negative) ==
  IF Lower(unsigned) \in {S_inf, S_infinity}
  THEN Returned(IF negative THEN PyFloatMinusInf ELSE PyFloatInf)
  ELSE IF Lower(unsigned) = S_nan THEN Returned(PyFloatNaN)
  ELSE IF FloatDigitsRead(unsigned)
  THEN Returned(PyFloat((IF negative THEN -1 ELSE 1)
                          * IntOf(SelectSeq(unsigned, IsDecimalDigit))))
  ELSE Raised("ValueError", "")

\* float(text), for text holding a whole number, inf or nan: spaces around,
\* a sign, then the number
FloatOfText(stripped) ==
  IF stripped # <<>> /\ Head(stripped) \in {"-", "+"}
  THEN FloatOfUnsigned(Tail(stripped), Head(stripped) = "-")
  ELSE FloatOfUnsigned(stripped, FALSE)

\* float(value)
FloatOf(value) ==
  CASE value.t = "num" -> Returned(PyFloat(value.v))
    [] value.t = "float" -> Returned(value)
    [] value.t = "bool" -> Returned(PyFloat(IF value.v THEN 1 ELSE 0))
    [] value.t = "str" -> FloatOfText(Strip(value.v))
    [] OTHER -> Raised("TypeError", "")

(***************************************************************************)
(* SearchSourceConnectorBase.validate_config_for_connector_type, the       *)
(* MCPO_CONNECTOR branch.  config is the mapping it is given; it returns   *)
(* the sanitized mapping or raises ValueError.                             *)
(***************************************************************************)
MCPO_BASE_URL ==
  <<"M", "C", "P", "O", "_", "B", "A", "S", "E", "_", "U", "R", "L">>
MCPO_SERVER ==
  <<"M", "C", "P", "O", "_", "S", "E", "R", "V", "E", "R">>
MCPO_API_KEY ==
  <<"M", "C", "P", "O", "_", "A", "P", "I", "_", "K", "E", "Y">>
MCPO_QUERY_PARAM ==
  <<"M", "C", "P", "O", "_", "Q", "U", "E", "R", "Y", "_", "P", "A", "R", "A", "M">>
MCPO_STATIC_ARGS ==
  <<"M", "C", "P", "O", "_", "S", "T", "A", "T", "I", "C", "_", "A", "R", "G", "S">>
MCPO_RESULT_PATH ==
  <<"M", "C", "P", "O", "_", "R", "E", "S", "U", "L", "T", "_", "P", "A", "T", "H">>
MCPO_TIMEOUT ==
  <<"M", "C", "P", "O", "_", "T", "I", "M", "E", "O", "U", "T">>
MCPO_OPENAPI_URL ==
  <<"M", "C", "P", "O", "_", "O", "P", "E", "N", "A", "P", "I", "_", "U", "R", "L">>
MCPO_TOOLS ==
  <<"M", "C", "P", "O", "_", "T", "O", "O", "L", "S">>
MCPO_TOOL ==
  <<"M", "C", "P", "O", "_", "T", "O", "O", "L">>

required_keys == {MCPO_BASE_URL, MCPO_SERVER}
optional_keys == {MCPO_API_KEY, MCPO_QUERY_PARAM, MCPO_STATIC_ARGS, MCPO_RESULT_PATH,
                  MCPO_TIMEOUT, MCPO_OPENAPI_URL, MCPO_TOOLS, MCPO_TOOL}

\* value in (None, "")
InNoneOrEmpty(value) == IsNone(value) \/ (IsStr(value) /\ value.v = <<>>)

\* config.pop(key, None) / del config[key]
PairsDel(kvs, key) == SelectSeq(kvs, LAMBDA kv : kv[1] # key)

\* a blank string: s.strip() is empty
IsBlank(value) == Strip(value.v) = <<>>

\* raise ValueError(msg), the mapping being config when it is raised; and the
\* mapping returned.  The validator changes the mapping it is given in place.
Refused(config, msg) ==
  [ok |-> FALSE, kind |-> "ValueError", msg |-> msg, config |-> PyDict(config)]
Accepted(config) == [ok |-> TRUE, value |-> PyDict(config), config |-> PyDict(config)]

\* unique_tools, and the MCPO_TOOLS entry set or popped (lines 324-332)
StoreTools(config, sanitized_tools) ==
  IF Unique(sanitized_tools, <<>>) # <<>>
  THEN Accepted(PairsSet(config, MCPO_TOOLS,
         PyList([i \in 1..Len(Unique(sanitized_tools, <<>>)) |->
                   PyStr(Unique(sanitized_tools, <<>>)[i])])))
  ELSE Accepted(PairsDel(config, MCPO_TOOLS))

\* the legacy MCPO_TOOL appended and deleted (lines 318-322)
MergeLegacyTool(config, sanitized_tools) ==
  IF HasKey(PyDict(config), MCPO_TOOL) /\ ~InNoneOrEmpty(PairsGet(config, MCPO_TOOL))
  THEN StoreTools(PairsDel(config, MCPO_TOOL),
         IF Strip(PyStrOf(PairsGet(config, MCPO_TOOL))) # <<>>
         THEN Append(sanitized_tools, Strip(PyStrOf(PairsGet(config, MCPO_TOOL))))
         ELSE sanitized_tools)
  ELSE StoreTools(config, sanitized_tools)

\* the loop over a list of tool names: each a non-blank string, stripped
SanitizeToolList(config, items) ==
  IF \E i \in 1..Len(items) : ~IsStr(items[i]) \/ IsBlank(items[i])
  THEN Refused(config, "MCPO_TOOLS entries must be non-empty strings")
  ELSE MergeLegacyTool(config, [i \in 1..Len(items) |-> Strip(items[i].v)])

ParsedTools(config, parsed_tools) ==
  IF ~parsed_tools.ok \/ ~IsList(parsed_tools.value)
  THEN Refused(config, "MCPO_TOOLS must be a JSON array of tool names")
  ELSE SanitizeToolList(config, parsed_tools.value.v)

\* MCPO_TOOLS (lines 294-316)
ValidateTools(config, tools_value) ==
  IF InNoneOrEmpty(tools_value) THEN MergeLegacyTool(config, <<>>)
  ELSE IF IsStr(tools_value) THEN ParsedTools(config, JsonLoads(tools_value.v))
  ELSE IF IsList(tools_value) THEN SanitizeToolList(config, tools_value.v)
  ELSE Refused(config, "MCPO_TOOLS must be provided as a list of strings")

TimeoutCoerced(config, coerced) ==
  IF ~coerced.ok THEN Refused(config, "MCPO_TIMEOUT must be a number")
  ELSE ValidateTools(PairsSet(config, MCPO_TIMEOUT, coerced.value),
                     PairsGet(config, MCPO_TOOLS))

\* MCPO_TIMEOUT (lines 285-292)
ValidateTimeout(config, timeout_value) ==
  IF InNoneOrEmpty(timeout_value)
  THEN ValidateTools(PairsDel(config, MCPO_TIMEOUT), PairsGet(config, MCPO_TOOLS))
  ELSE TimeoutCoerced(config, FloatOf(timeout_value))

\* MCPO_QUERY_PARAM (lines 278-283)
ValidateQueryParam(config, query_param) ==
  IF IsStr(query_param)
  THEN ValidateTimeout(PairsSet(config, MCPO_QUERY_PARAM,
                                PyOr(PyStr(Strip(query_param.v)), PyNone)),
                       PairsGet(config, MCPO_TIMEOUT))
  ELSE IF ~InNoneOrEmpty(query_param)
  THEN Refused(config, "MCPO_QUERY_PARAM must be a string if provided")
  ELSE ValidateTimeout(config, PairsGet(config, MCPO_TIMEOUT))

ResultPathDone(config) == ValidateQueryParam(config, PairsGet(config, MCPO_QUERY_PARAM))

\* MCPO_RESULT_PATH (lines 268-276)
ValidateResultPath(config, result_path_value) ==
  IF IsStr(result_path_value)
  THEN IF ~IsBlank(result_path_value)
       THEN ResultPathDone(PairsSet(config, MCPO_RESULT_PATH,
                                    PyStr(Strip(result_path_value.v))))
       ELSE ResultPathDone(PairsDel(config, MCPO_RESULT_PATH))
  ELSE IF ~IsNone(result_path_value)
  THEN Refused(config, "MCPO_RESULT_PATH must be a string if provided")
  ELSE ResultPathDone(config)

StaticArgsDone(config, static_args) ==
  ValidateResultPath(PairsSet(config, MCPO_STATIC_ARGS, static_args),
                     PairsGet(config, MCPO_RESULT_PATH))

ParsedStaticArgs(config, parsed_args) ==
  IF ~parsed_args.ok
  THEN Refused(config, "MCPO_STATIC_ARGS must be a valid JSON object string")
  ELSE IF ~IsDict(parsed_args.value)
  THEN Refused(config, "MCPO_STATIC_ARGS must decode to a JSON object")
  ELSE StaticArgsDone(config, parsed_args.value)

\* MCPO_STATIC_ARGS (lines 250-266)
ValidateStaticArgs(config, static_args) ==
  IF InNoneOrEmpty(static_args) THEN StaticArgsDone(config, PyDict(<<>>))
  ELSE IF IsStr(static_args) THEN ParsedStaticArgs(config, JsonLoads(static_args.v))
  ELSE IF IsDict(static_args) THEN StaticArgsDone(config, static_args)
  ELSE Refused(config, "MCPO_STATIC_ARGS must be provided as a dictionary")

OpenapiDone(config) == ValidateStaticArgs(config, PairsGet(config, MCPO_STATIC_ARGS))

\* MCPO_OPENAPI_URL (lines 238-248)
ValidateOpenapiUrl(config, openapi_value) ==
  IF InNoneOrEmpty(openapi_value) THEN OpenapiDone(PairsDel(config, MCPO_OPENAPI_URL))
  ELSE IF IsStr(openapi_value)
  THEN IF ~IsBlank(openapi_value)
       THEN OpenapiDone(PairsSet(config, MCPO_OPENAPI_URL, PyStr(Strip(openapi_value.v))))
       ELSE OpenapiDone(PairsDel(config, MCPO_OPENAPI_URL))
  ELSE Refused(config, "MCPO_OPENAPI_URL must be a string if provided")

\* server_value.strip().strip("/")
SanitizeServer(server_value) == StripSlash(Strip(server_value))

\* base_url_value.strip().rstrip("/")
SanitizeBaseUrl(base_url_value) == RStripSlash(Strip(base_url_value))

\* MCPO_SERVER (lines 233-236)
ValidateServer(config, server_value) ==
  IF ~IsStr(server_value) \/ IsBlank(server_value)
  THEN Refused(config, "MCPO_SERVER must be a non-empty string")
  ELSE ValidateOpenapiUrl(PairsSet(config, MCPO_SERVER, PyStr(SanitizeServer(server_value.v))),
                          PairsGet(config, MCPO_OPENAPI_URL))

\* MCPO_BASE_URL (lines 227-231)
ValidateBaseUrl(config, base_url_value) ==
  IF ~IsStr(base_url_value) \/ IsBlank(base_url_value)
  THEN Refused(config, "MCPO_BASE_URL must be a non-empty string")
  ELSE ValidateServer(PairsSet(config, MCPO_BASE_URL,
                               PyStr(SanitizeBaseUrl(base_url_value.v))),
                      PairsGet(config, MCPO_SERVER))

\* a slip: keys outside the two sets are let through
HasUnexpectedKeysNever(config) == FALSE

\* set(config.keys()) - (required_keys | optional_keys) is not empty
HasUnexpectedKeys(config) ==
  \E i \in 1..Len(config) : config[i][1] \notin (required_keys \cup optional_keys)

\* [key for key in required_keys if key not in config] is not empty
HasMissingKeys(config) == \E key \in required_keys : ~HasKey(PyDict(config), key)

\* the MCPO_CONNECTOR branch, config being the pairs of the mapping
ValidateMcpoConfig(config) ==
  IF HasUnexpectedKeys(config)
  THEN Refused(config,
          "For MCPO_CONNECTOR connector type, config contains unexpected keys")
  ELSE IF HasMissingKeys(config)
  THEN Refused(config, "Missing required MCPO connector config values")
  ELSE ValidateBaseUrl(config, PairsGet(config, MCPO_BASE_URL))

\* what a run of the branch returns or raises
ResultOf(run) == IF run.ok THEN Returned(run.value) ELSE Raised(run.kind, run.msg)

\* validate_config_for_connector_type(cls, config, values) for an MCPO connector
validate_config_for_connector_type(config) == ResultOf(ValidateMcpoConfig(config.v))

\* the mapping the caller handed over, after the call
ConfigAfter(config) == ValidateMcpoConfig(config.v).config

(***************************************************************************)
(* The inputs the model draws from                                         *)
(***************************************************************************)
T_h == <<"h", "t", "t", "p", ":", "/", "/", "h">>
T_h_slash == <<"h", "t", "t", "p", ":", "/", "/", "h", "/">>
T_h_slashes == <<"h", "t", "t", "p", ":", "/", "/", "h", "/", "/">>
T_h_api == <<"h", "t", "t", "p", ":", "/", "/", "h", "/", "a", "p", "i">>
T_slash == <<"/">>
T_blank == <<" ">>
T_empty == <<>>
T_math == <<"m", "a", "t", "h">>
T_math_slashes == <<"/", "m", "a", "t", "h", "/">>
T_a_b == <<"a", "/", "b">>
T_add == <<"a", "d", "d">>
T_add_padded == <<" ", "/", "a", "d", "d", "/", " ">>
T_sub == <<"s", "u", "b">>
T_spec_abs == <<"h", "t", "t", "p", ":", "/", "/", "o", "/", "s", "p", "e", "c", ".", "j", "s", "o", "n">>
T_spec_rel == <<"s", "p", "e", "c", ".", "j", "s", "o", "n">>
T_spec_padded == <<" ", "/", "s", "p", "e", "c", ".", "j", "s", "o", "n", " ">>
T_query == <<"q", "u", "e", "r", "y">>
T_q_padded == <<" ", "q", " ">>
T_limit == <<"l", "i", "m", "i", "t">>
T_key == <<"k">>
T_hello == <<"h", "e", "l", "l", "o">>
T_foo == <<"f", "o", "o">>
T_x == <<"x">>
T_x1 == <<"x", "1">>
T_a == <<"a">>
T_b == <<"b">>
T_r == <<"r">>
T_i == <<"i">>
T_d == <<"d">>
T_zero == <<"0">>
T_one == <<"1">>
T_ten == <<"1", "0">>
T_data_0_padded == <<" ", "d", "a", "t", "a", " ", ".", " ", "0", " ">>
T_dots == <<".", ".">>
T_cats == <<"c", "a", "t", "s">>
T_dogs == <<"d", "o", "g", "s">>
T_sup2 == <<SUPERSCRIPT_TWO>>

MaxPathTokens == 2
MaxItems == 2
MaxPaths == 2

SeqsUpTo(S, n) == UNION {[1..k -> S] : k \in 0..n}

\* the arguments of MCPOConnector(...) when only base_url and server are given
DefaultArgs ==
  [base_url |-> T_h, server |-> T_math, tool |-> PyNone, api_key |-> PyNone,
   query_param |-> PyStr(T_query), static_args |-> PyNone, result_path |-> PyNone,
   timeout |-> PyNum(DefaultTimeout), openapi_url |-> PyNone]

T_ftp == <<"f", "t", "p", ":", "/", "/", "h">>
BaseUrls == {T_empty, T_slash, T_blank, T_h, T_h_slash, T_h_slashes, T_h_api, T_ftp}
Servers == {T_empty, T_slash, T_math, T_math_slashes, T_a_b}
Overrides == {PyNone, PyStr(T_empty), PyStr(T_blank), PyStr(T_spec_abs),
              PyStr(T_spec_rel), PyStr(T_spec_padded)}
ToolArgs == {PyNone, PyStr(T_empty), PyStr(T_blank), PyStr(T_slash), PyStr(T_add),
             PyStr(T_add_padded)}
NewTools == {PyStr(T_sub), PyStr(T_add_padded), PyStr(T_blank)}
Queries == {T_cats, T_dogs}
QueryParams == {PyNone, PyStr(T_empty), PyStr(T_blank), PyStr(T_query),
                PyStr(T_q_padded), PyStr(T_limit)}
StaticArgs == {PyNone, PyDict(<<>>), PyDict(<< <<T_limit, PyNum(5)>> >>),
               PyDict(<< <<T_query, PyStr(T_x)>>, <<T_limit, PyNum(5)>> >>)}
ApiKeys == {PyNone, PyStr(T_key)}
Timeouts == {PyNone, PyNum(0), PyNum(5), PyNum(DefaultTimeout)}

\* the clients whose addresses vary
IdentityArgs ==
  {[DefaultArgs EXCEPT !.base_url = b, !.server = sv, !.openapi_url = o, !.tool = PyStr(T_add)] :
     b \in BaseUrls, sv \in Servers, o \in Overrides}

\* the clients whose invocation settings vary
InvokeArgs ==
  {[DefaultArgs EXCEPT !.tool = tl, !.query_param = qp, !.static_args = st] :
     tl \in ToolArgs, qp \in QueryParams, st \in StaticArgs}
  \cup {[DefaultArgs EXCEPT !.api_key = k, !.timeout = tm, !.tool = PyStr(T_add),
                            !.result_path = PyStr(T_data_0_padded)] :
     k \in ApiKeys, tm \in Timeouts}

CtorArgs == IdentityArgs \cup InvokeArgs

(***************************************************************************)
(* Replies: a body that parses as JSON (data), or one that does not (text) *)
(***************************************************************************)
JsonReply(data, declared_json) ==
  [parses |-> TRUE, declared_json |-> declared_json, data |-> data, text |-> <<>>]
TextReply(text, declared_json) ==
  [parses |-> FALSE, declared_json |-> declared_json, data |-> PyNone, text |-> text]

Item_a == PyDict(<< <<K_title, PyStr(T_a)>> >>)
Item_b == PyDict(<< <<K_title, PyStr(T_b)>> >>)
Item_x1 == PyDict(<< <<K_id, PyStr(T_x1)>> >>)

\* what a sequence of results may hold
Items == {PyNone, PyStr(T_hello), PyNum(7), PyList(<<PyStr(T_a)>>), Item_a}

Lists == {PyList(xs) : xs \in SeqsUpTo(Items, MaxItems)}

Scalars == {PyNone, PyStr(T_empty), PyStr(T_hello), PyNum(0), PyNum(7),
            PyBool(FALSE), PyBool(TRUE)}

\* the value a mapping holds under its k-th convention key: a list of its own,
\* or a number
ConventionList(k) ==
  CASE k = 1 -> PyList(<<PyStr(T_r)>>)
    [] k = 2 -> PyList(<<PyStr(T_i), Item_a>>)
    [] k = 3 -> PyList(<<PyStr(T_d)>>)
    [] k = 4 -> PyList(<<>>)

\* shape[k]: 0 the k-th convention key is absent, 1 it holds a list, 2 a number
RECURSIVE ConventionPairs(_, _)
ConventionPairs(shape, k) ==
  IF k > Len(ConventionKeys) THEN <<>>
  ELSE (IF shape[k] = 0 THEN <<>>
        ELSE IF shape[k] = 1 THEN << <<ConventionKeys[k], ConventionList(k)>> >>
        ELSE << <<ConventionKeys[k], PyNum(k)>> >>)
       \o ConventionPairs(shape, k + 1)

ConventionDicts ==
  {PyDict(ConventionPairs(shape, 1)) : shape \in [1..Len(ConventionKeys) -> 0..2]}

Nested ==
  {PyDict(<< <<K_data, PyDict(<< <<K_results, PyList(<<Item_a, Item_b>>)>> >>)>> >>),
   PyList(<<Item_x1>>),
   PyDict(<< <<T_foo, PyNum(1)>> >>),
   PyDict(<< <<K_data, PyList(<<PyList(<<Item_a, Item_b>>), PyNum(7)>>)>> >>),
   PyDict(<< <<T_zero, PyList(<<Item_b>>)>>, <<T_x, PyNone>> >>),
   PyList(<<PyDict(<< <<K_data, PyStr(T_hello)>> >>), PyList(<<PyNum(0), PyNone>>)>>),
   PyDict(<< <<T_x, PyDict(<< <<K_results, PyNum(7)>>,
                              <<K_items, PyList(<<Item_b>>)>> >>)>> >>)}

ResponseData == Lists \cup Scalars \cup ConventionDicts \cup Nested

ResponseReplies ==
  {JsonReply(d, TRUE) : d \in ResponseData}
  \cup {JsonReply(PyList(<<Item_x1>>), FALSE), TextReply(T_hello, FALSE),
        TextReply(T_hello, TRUE)}

\* the result paths: up to MaxPathTokens tokens joined by dots, and a few more
PathTokens == {K_data, T_x, T_zero, T_one, T_sup2}
ResultPaths ==
  {PyStr(Join(tokens, DOT)) : tokens \in SeqsUpTo(PathTokens, MaxPathTokens)}
  \cup {PyNone, PyStr(T_data_0_padded), PyStr(T_ten), PyStr(T_dots)}

ExtractArgs ==
  {[DefaultArgs EXCEPT !.tool = PyStr(T_add), !.result_path = rp] : rp \in ResultPaths}

(***************************************************************************)
(* Raw items for normalization                                             *)
(***************************************************************************)
T_n == <<"n">>
T_s == <<"s">>
T_p == <<"p">>

\* content longer than the description may be
LongText == [i \in 1..(DescriptionLimit + 1) |-> IF i > DescriptionLimit THEN "b" ELSE "a"]

\* a key with its value, or nothing when the key is absent
Field(key, value) == IF value = Unset THEN <<>> ELSE << <<key, value>> >>

\* mappings whose title, name and id vary
TitleItems ==
  {PyDict(Field(K_title, title) \o Field(K_name, name) \o Field(K_id, id)) :
     title \in {Unset, PyStr(T_a), PyStr(T_empty), PyNum(7), PyNone},
     name \in {Unset, PyStr(T_n)},
     id \in {Unset, PyStr(T_x1), PyNum(0)}}

\* mappings whose description, summary, snippet and content vary
DescriptionItems ==
  {PyDict(Field(K_description, description) \o Field(K_summary, summary)
          \o Field(K_snippet, snippet) \o Field(K_content, content)) :
     description \in {Unset, PyStr(T_d), PyStr(T_empty), PyNum(5), PyNum(0),
                      PyList(<<PyStr(T_a)>>)},
     summary \in {Unset, PyStr(T_s), PyBool(TRUE)},
     snippet \in {Unset, PyStr(T_p)},
     content \in {Unset, PyStr(T_hello), PyStr(T_empty), PyStr(LongText), PyNum(0)}}

PlainItems ==
  {PyNone, PyStr(T_hello), PyStr(T_empty), PyStr(LongText), PyNum(7), PyBool(FALSE),
   PyList(<<PyStr(T_a)>>)}

\* the items that fill the later positions of a sequence
PositionItems == {PyStr(T_hello), PyNum(7), PyDict(<<>>), Item_x1}

NormalizeResponses ==
  {PyList(<<item>>) : item \in TitleItems \cup DescriptionItems \cup PlainItems}
  \cup {PyList(xs) : xs \in SeqsUpTo(PositionItems, MaxItems)}

NormalizeReplies == {JsonReply(d, TRUE) : d \in NormalizeResponses}

NormalizeArgs == {[DefaultArgs EXCEPT !.tool = PyStr(T_add)]}

(***************************************************************************)
(* Configurations submitted to the validator                               *)
(***************************************************************************)
T_h_padded == <<" ", "h", "t", "t", "p", ":", "/", "/", "h", "/", " ">>
T_h_space_slash == <<"h", "t", "t", "p", ":", "/", "/", "h", " ", "/">>
T_math_padded == <<" ", "/", "m", "a", "t", "h", "/", " ">>
T_math_space_slash == <<"m", "a", "t", "h", " ", "/">>
T_y == <<"y">>
T_x_padded == <<" ", "x", " ">>
T_y_padded == <<" ", "y", " ">>
T_five == <<"5">>
T_five_padded == <<" ", "5", " ">>
T_minus_five == <<"-", "5">>
T_abc == <<"a", "b", "c">>
T_data_0 == <<"d", "a", "t", "a", ".", "0">>
T_FOO == <<"F", "O", "O">>
J_empty_object == <<"{", "}">>
J_limit == <<"{", "\"", "l", "i", "m", "i", "t", "\"", ":", " ", "5", "}">>
J_nested == <<"{", "\"", "a", "\"", ":", " ", "{", "\"", "b", "\"", ":", " ", "[", "1", ",", " ", "-", "2", ",", " ", "t", "r", "u", "e", ",", " ", "n", "u", "l", "l", "]", "}", ",", " ", "\"", "a", "\"", ":", " ", "\"", "z", "\"", ",", " ", "\"", "c", "\"", ":", " ", "f", "a", "l", "s", "e", "}">>
J_list == <<"[", "1", "]">>
J_trailing == <<"{", "\"", "l", "i", "m", "i", "t", "\"", ":", " ", "5", "}", " ", "x">>
J_no_colon == <<"{", "\"", "l", "i", "m", "i", "t", "\"", " ", "5", "}">>
J_leading_zero == <<"{", "\"", "l", "i", "m", "i", "t", "\"", ":", " ", "0", "5", "}">>
J_open == <<"{", "\"", "l", "i", "m", "i", "t", "\"", ":", " ", "5">>
J_tools_y == <<"[", "\"", "y", "\"", "]">>
J_tools_y_x == <<"[", " ", "\"", "y", "\"", " ", ",", " ", "\"", " ", "x", " ", "\"", " ", "]">>
J_tools_text == <<"\"", "y", "\"">>
J_tools_number == <<"[", "7", "]">>
J_tools_none == <<"[", "]">>
J_tools_comma == <<"[", "\"", "y", "\"", ",", "]">>
T_slash_space_slash == <<"/", " ", "/">>
T_inf == <<"i", "n", "f">>
T_minus_Infinity == <<" ", "-", "I", "n", "f", "i", "n", "i", "t", "y">>
T_NaN == <<"N", "a", "N">>
T_ten_underscore == <<"1", "_", "0">>
T_double_underscore == <<"1", "_", "_", "0">>
T_underscore_one == <<"_", "1">>
J_nan == <<"{", "\"", "a", "\"", ":", " ", "N", "a", "N", "}">>
J_infinities == <<"{", "\"", "a", "\"", ":", " ", "[", "I", "n", "f", "i", "n", "i", "t", "y", ",", " ", "-", "I", "n", "f", "i", "n", "i", "t", "y", "]", "}">>
J_nan_alone == <<"N", "a", "N">>
J_tools_nan == <<"[", "N", "a", "N", "]">>
J_minus == <<"{", "\"", "a", "\"", ":", " ", "-", "}">>

MaxTools == 2

ConfigBaseUrls ==
  {Unset, PyNone, PyNum(7), PyStr(T_empty), PyStr(T_blank), PyStr(T_slash), PyStr(T_h),
   PyStr(T_h_padded), PyStr(T_h_space_slash), PyStr(T_slash_space_slash)}
ConfigServers ==
  {Unset, PyStr(T_empty), PyStr(T_slash), PyStr(T_math), PyStr(T_math_padded),
   PyStr(T_math_space_slash), PyStr(T_a_b), PyStr(T_slash_space_slash)}

\* the two required entries
Identity(base_url, server) == Field(MCPO_BASE_URL, base_url) \o Field(MCPO_SERVER, server)
GoodIdentity == Identity(PyStr(T_h), PyStr(T_math))

IdentityConfigs ==
  {PyDict(Identity(base_url, server)) : base_url \in ConfigBaseUrls, server \in ConfigServers}

\* the values an optional key is submitted with
OptionValues(key) ==
  CASE key = MCPO_API_KEY -> {PyNone, PyStr(T_key)}
    [] key = MCPO_OPENAPI_URL ->
         {PyNone, PyStr(T_empty), PyStr(T_blank), PyStr(T_spec_padded), PyNum(7)}
    [] key = MCPO_STATIC_ARGS ->
         {PyNone, PyStr(T_empty), PyStr(T_blank), PyStr(J_empty_object), PyStr(J_limit),
          PyStr(J_nested), PyStr(J_list), PyStr(J_trailing), PyStr(J_no_colon),
          PyStr(J_leading_zero), PyStr(J_open), PyStr(T_hello), PyDict(<<>>),
          PyStr(J_nan), PyStr(J_infinities), PyStr(J_nan_alone), PyStr(J_minus),
          PyDict(<< <<T_limit, PyNum(5)>> >>), PyNum(7), PyList(<<PyNum(1)>>)}
    [] key = MCPO_RESULT_PATH ->
         {PyNone, PyStr(T_empty), PyStr(T_blank), PyStr(T_data_0_padded), PyStr(T_data_0),
          PyNum(7)}
    [] key = MCPO_QUERY_PARAM ->
         {PyNone, PyStr(T_empty), PyStr(T_blank), PyStr(T_q_padded), PyStr(T_query),
          PyNum(0), PyNum(7)}
    [] key = MCPO_TIMEOUT ->
         {PyNone, PyStr(T_empty), PyStr(T_blank), PyNum(0), PyNum(5), PyFloat(5),
          PyStr(T_five), PyStr(T_five_padded), PyStr(T_minus_five), PyStr(T_abc),
          PyBool(TRUE), PyList(<<PyNum(5)>>), PyStr(T_inf), PyStr(T_minus_Infinity),
          PyStr(T_NaN), PyStr(T_ten_underscore), PyStr(T_double_underscore),
          PyStr(T_underscore_one), PyFloatInf, PyFloatNaN}
    [] OTHER -> {}

OptionConfigs ==
  {PyDict(GoodIdentity \o Field(key, value)) :
     <<key, value>> \in UNION {{key} \X OptionValues(key) : key \in optional_keys}}

\* the tool names a submitted list holds, and the submitted lists
ToolNames == {PyStr(T_y), PyStr(T_x_padded), PyStr(T_y_padded)}
SubmittedTools ==
  {Unset, PyNone, PyStr(T_empty), PyStr(T_blank), PyNum(7), PyList(<<PyNum(7)>>),
   PyList(<<PyStr(T_y), PyStr(T_blank)>>), PyStr(J_tools_y), PyStr(J_tools_y_x),
   PyStr(J_tools_text), PyStr(J_tools_number), PyStr(J_tools_none), PyStr(J_tools_comma),
   PyStr(J_tools_nan),
   PyStr(T_hello)}
  \cup {PyList(names) : names \in SeqsUpTo(ToolNames, MaxTools)}
LegacyTools ==
  {Unset, PyNone, PyStr(T_empty), PyStr(T_blank), PyStr(T_x), PyStr(T_y_padded), PyNum(7)}

ToolConfigs ==
  {PyDict(GoodIdentity \o Field(MCPO_TOOLS, tools) \o Field(MCPO_TOOL, tool)) :
     tools \in SubmittedTools, tool \in LegacyTools}

\* every optional key at once, a key outside the two sets, no key at all
KeyConfigs ==
  {PyDict(GoodIdentity \o << <<MCPO_API_KEY, PyStr(T_key)>>,
                             <<MCPO_QUERY_PARAM, PyStr(T_q_padded)>>,
                             <<MCPO_STATIC_ARGS, PyStr(J_limit)>>,
                             <<MCPO_RESULT_PATH, PyStr(T_data_0_padded)>>,
                             <<MCPO_TIMEOUT, PyStr(T_five)>>,
                             <<MCPO_OPENAPI_URL, PyStr(T_spec_padded)>>,
                             <<MCPO_TOOLS, PyStr(J_tools_y)>>,
                             <<MCPO_TOOL, PyStr(T_x)>> >>),
   PyDict(GoodIdentity \o << <<T_FOO, PyNum(1)>> >>),
   PyDict(<< <<T_FOO, PyNum(1)>>, <<MCPO_SERVER, PyStr(T_math)>> >>),
   PyDict(<< <<MCPO_TOOLS, PyList(<<PyStr(T_y)>>)>> >>),
   PyDict(<<>>)}

Configs == IdentityConfigs \cup OptionConfigs \cup ToolConfigs \cup KeyConfigs

(***************************************************************************)
(* Discovery documents                                                     *)
(***************************************************************************)
P_math_add == <<"/", "m", "a", "t", "h", "/", "a", "d", "d">>
P_math_sub == <<"/", "m", "a", "t", "h", "/", "s", "u", "b", "/">>
P_add == <<"/", "a", "d", "d">>
P_math_id_add == <<"/", "m", "a", "t", "h", "/", "{", "i", "d", "}", "/", "a", "d", "d">>
P_math == <<"/", "m", "a", "t", "h">>
P_math_docs == <<"/", "m", "a", "t", "h", "/", "d", "o", "c", "s">>
P_math_api == <<"/", "m", "a", "t", "h", "/", "a", "p", "i">>
P_api_mul == <<"/", "a", "p", "i", "/", "m", "u", "l">>
U_h_api == <<"h", "t", "t", "p", ":", "/", "/", "h", "/", "a", "p", "i">>
U_api == <<"/", "a", "p", "i", "/">>
U_h == <<"h", "t", "t", "p", ":", "/", "/", "h">>
M_get == <<"g", "e", "t">>
M_POST == <<"P", "O", "S", "T">>

P_api_math == <<"/", "a", "p", "i", "/", "m", "a", "t", "h">>

DocPaths == {P_math_add, P_math_sub, P_add, P_math_id_add, P_math, P_math_docs,
             P_math_api, P_api_mul, P_api_math}
O_post == PyDict(<< <<S_post, PyDict(<<>>)>> >>)
O_get == PyDict(<< <<M_get, PyDict(<<>>)>> >>)
O_get_POST == PyDict(<< <<M_get, PyDict(<<>>)>>, <<M_POST, PyDict(<<>>)>> >>)

\* every path declaring post, and a few declaring get alone, get and POST, or
\* holding no mapping
PathEntries ==
  {<<raw_path, O_post>> : raw_path \in DocPaths}
  \cup {<<P_math_add, O_get>>, <<P_math_sub, O_get_POST>>, <<P_add, O_get>>,
        <<P_add, PyNone>>}

\* the entries of a paths mapping, in document order, the paths distinct
PathMaps ==
  {entries \in SeqsUpTo(PathEntries, MaxPaths) :
     \A i, j \in 1..Len(entries) : i # j => entries[i][1] # entries[j][1]}

ServerLists ==
  {PyNone,
   PyList(<<PyDict(<< <<K_url, PyStr(U_h_api)>> >>)>>),
   PyList(<<PyStr(T_x), PyDict(<< <<K_url, PyStr(U_h)>> >>),
            PyDict(<< <<K_url, PyStr(U_api)>> >>)>>)}

Document(entries, servers) ==
  PyDict(<< <<K_paths, PyDict(entries)>> >>
         \o (IF IsNone(servers) THEN <<>> ELSE << <<K_servers, servers>> >>))

Documents == {Document(entries, servers) : entries \in PathMaps, servers \in ServerLists}

DocumentReplies ==
  {JsonReply(d, TRUE) : d \in Documents}
  \cup {JsonReply(PyList(<<>>), TRUE), JsonReply(PyDict(<< <<K_paths, PyNum(1)>> >>), FALSE),
        TextReply(T_hello, FALSE)}

DiscoverArgs ==
  {[DefaultArgs EXCEPT !.server = sv] : sv \in {T_math, T_a_b, T_slash}}

\* the replies of the runs that are not about extraction or discovery
BasicReplies ==
  {JsonReply(PyList(<<Item_x1>>), TRUE),
   JsonReply(Document(<< <<P_math_add, PyDict(<< <<S_post, PyDict(<<>>)>> >>)>> >>, PyNone), TRUE),
   TextReply(T_hello, FALSE), TextReply(T_hello, TRUE)}

(***************************************************************************)
(* The state machine                                                       *)
(***************************************************************************)
VARIABLES
  args,     \* the arguments the client was constructed with
  built,    \* what MCPOConnector(args) returned or raised
  pc,       \* "idle", "post" / "get" while a call awaits its reply, or "close"
            \* while list_tools, its data bound, awaits the closing of its client
  callee,   \* the client whose call awaits a reply
  request,  \* the request on the wire
  sent,     \* the requests the current call has issued
  frame,    \* the locals of the last call: response_data and normalized_payload
  outcome,  \* the last call: its operation, its argument, its result
  config,   \* the configuration mapping of an MCPO connector, None without one;
            \* the validator changes it in place
  validation,  \* what the validator returned or raised for config; the mapping
               \* it returned is config itself
  submitted    \* config as it was submitted, before the validator ran

vars ==
  <<args, built, pc, callee, request, sent, frame, outcome, config, validation, submitted>>

NoOutcome == [op |-> "none", arg |-> PyNone, result |-> Pending]
NoFrame == [response_data |-> Unset, normalized_payload |-> Unset]

InitWith(pool) ==
  /\ args \in pool
  /\ built = MCPOConnector(args)
  /\ pc = "idle"
  /\ callee = PyNone
  /\ request = NoRequest
  /\ sent = 0
  /\ frame = NoFrame
  /\ outcome = NoOutcome
  /\ config = PyNone
  /\ validation = Pending
  /\ submitted = PyNone

Init == InitWith(CtorArgs)
InitExtract == InitWith(ExtractArgs)
InitDiscover == InitWith(DiscoverArgs)
InitNormalize == InitWith(NormalizeArgs)

\* a call has run up to its await, or has raised before it
Begin(op, arg, self, step) ==
  /\ pc' = step.pc
  /\ request' = step.request
  /\ sent' = step.sent
  /\ callee' = IF step.pc = "idle" THEN PyNone ELSE self
  /\ frame' = NoFrame
  /\ outcome' = [op |-> op, arg |-> arg, result |-> step.result]
  /\ UNCHANGED <<config, validation, submitted>>

\* connector.search(query), up to the await in _post
SearchSend(query) ==
  /\ pc = "idle"
  /\ built.ok
  /\ LET body == BuildPayload(built.value, query)
         self == [built.value EXCEPT !.static_args = body.static_args]
     IN /\ built' = [built EXCEPT !.value = self]
        /\ Begin("search", PyStr(query), self, PostBegin(self, body.payload))
  /\ UNCHANGED args

\* a call returns or raises after its reply
Finish(done) ==
  /\ pc' = "idle"
  /\ request' = NoRequest
  /\ callee' = PyNone
  /\ frame' = [response_data |-> done.response_data,
               normalized_payload |-> done.normalized_payload]
  /\ outcome' = [outcome EXCEPT !.result = done.result]
  /\ UNCHANGED <<args, built, sent, config, validation, submitted>>

\* the reply to the POST arrives: search() returns its results, or raises
SearchReceive(reply) ==
  /\ pc = "post"
  /\ Finish(PostFinish(callee, reply))

\* connector.list_tools(), up to the await
ListToolsSend ==
  /\ pc = "idle"
  /\ built.ok
  /\ Begin("list_tools", PyNone, built.value, GetBegin(built.value))
  /\ UNCHANGED <<args, built>>

\* list_tools on the client discover_tools made, or the raise of its construction
DiscoverBegin(connector) ==
  IF connector.ok
  THEN Begin("discover_tools", PyNone, connector.value, GetBegin(connector.value))
  ELSE Begin("discover_tools", PyNone, PyNone,
             [pc |-> "idle", request |-> NoRequest, sent |-> 0, result |-> connector])

\* MCPOConnector.discover_tools(...), up to the await in list_tools
DiscoverToolsSend ==
  /\ pc = "idle"
  /\ DiscoverBegin(DiscoverConnector(args))
  /\ UNCHANGED <<args, built>>

\* the reply to the GET arrives: data is bound inside the "async with" block,
\* whose end awaits the closing of the client; or the reply does not parse
\* and the call raises
ListToolsReceive(reply) ==
  /\ pc = "get"
  /\ IF reply.parses
     THEN /\ pc' = "close"
          /\ frame' = [response_data |-> reply.data, normalized_payload |-> Unset]
          /\ UNCHANGED <<args, built, callee, request, sent, outcome,
                         config, validation, submitted>>
     ELSE Finish(GetInvalid)

\* the client is closed: list_tools extracts the tool names and returns them
ListToolsClose ==
  /\ pc = "close"
  /\ Finish(GetFinish(callee, frame.response_data))

\* the request fails: a failure status, no connection, or a timeout
HttpFail(kind) ==
  /\ pc \in {"post", "get"}
  /\ LET step == OnHttpFailure(kind, sent, request)
     IN /\ pc' = IF step.pc = "idle" THEN "idle" ELSE pc
        /\ request' = step.request
        /\ sent' = step.sent
        /\ callee' = IF step.pc = "idle" THEN PyNone ELSE callee
        /\ outcome' = [outcome EXCEPT !.result = step.result]
  /\ UNCHANGED <<args, built, frame, config, validation, submitted>>

\* connector.with_tool(tool)
WithTool(tool) ==
  /\ pc = "idle"
  /\ built.ok
  /\ outcome' = [op |-> "with_tool", arg |-> tool, result |-> with_tool(built.value, tool)]
  /\ sent' = 0
  /\ frame' = NoFrame
  /\ UNCHANGED <<args, built, pc, callee, request, config, validation, submitted>>

Next ==
  \/ \E query \in Queries : SearchSend(query)
  \/ \E reply \in BasicReplies : SearchReceive(reply)
  \/ ListToolsSend
  \/ DiscoverToolsSend
  \/ \E reply \in BasicReplies : ListToolsReceive(reply)
  \/ ListToolsClose
  \/ \E kind \in HttpFailures : HttpFail(kind)
  \/ \E tool \in NewTools : WithTool(tool)

Spec == Init /\ [][Next]_vars

NextExtract ==
  \/ \E query \in Queries : SearchSend(query)
  \/ \E reply \in ResponseReplies : SearchReceive(reply)
  \/ \E kind \in HttpFailures : HttpFail(kind)

SpecExtract == InitExtract /\ [][NextExtract]_vars

NextDiscover ==
  \/ ListToolsSend
  \/ DiscoverToolsSend
  \/ \E reply \in DocumentReplies : ListToolsReceive(reply)
  \/ ListToolsClose
  \/ \E kind \in HttpFailures : HttpFail(kind)

SpecDiscover == InitDiscover /\ [][NextDiscover]_vars

NextNormalize ==
  \/ \E query \in Queries : SearchSend(query)
  \/ \E reply \in NormalizeReplies : SearchReceive(reply)
  \/ \E kind \in HttpFailures : HttpFail(kind)

SpecNormalize == InitNormalize /\ [][NextNormalize]_vars

\* a configuration has been submitted; no client has been made yet
InitValidate ==
  /\ config \in Configs
  /\ validation = Pending
  /\ submitted = config
  /\ args = PyNone
  /\ built = Pending
  /\ pc = "idle"
  /\ callee = PyNone
  /\ request = NoRequest
  /\ sent = 0
  /\ frame = NoFrame
  /\ outcome = NoOutcome

\* the validator runs on the submitted configuration, changing it in place
Validate ==
  /\ validation = Pending
  /\ validation' = validate_config_for_connector_type(config)
  /\ config' = ConfigAfter(config)
  /\ UNCHANGED <<args, built, pc, callee, request, sent, frame, outcome, submitted>>

\* the validator runs again, on the configuration it returned: the mapping
\* the first run returned is the one the second run changes
Revalidate ==
  /\ validation.ok
  /\ outcome' = [op |-> "validate", arg |-> validation.value,
                 result |-> validate_config_for_connector_type(validation.value)]
  /\ config' = ConfigAfter(validation.value)
  /\ validation' = Returned(ConfigAfter(validation.value))
  /\ UNCHANGED <<args, built, pc, callee, request, sent, frame, submitted>>

\* the arguments of the client made from a sanitized configuration
ClientArgs(sanitized) ==
  [DefaultArgs EXCEPT !.base_url = DictGet(sanitized, MCPO_BASE_URL).v,
                      !.server = DictGet(sanitized, MCPO_SERVER).v]

\* a client is constructed from the sanitized configuration
Construct ==
  /\ validation.ok
  /\ args' = ClientArgs(validation.value)
  /\ built' = MCPOConnector(ClientArgs(validation.value))
  /\ outcome' = [op |-> "construct", arg |-> validation.value,
                 result |-> MCPOConnector(ClientArgs(validation.value))]
  /\ UNCHANGED <<pc, callee, request, sent, frame, config, validation, submitted>>

NextValidate == Validate \/ Revalidate \/ Construct

SpecValidate == InitValidate /\ [][NextValidate]_vars

(***************************************************************************)
(* Properties of result-container extraction                               *)
(***************************************************************************)
\* search() has returned or raised after _post gave it response data
SearchGotData ==
  outcome.op = "search" /\ pc = "idle" /\ frame.response_data.t # "unset"

\* search() got as far as normalizing the extracted payload
SearchExtracted == SearchGotData /\ frame.normalized_payload.t # "unset"

\* The walk of the result path as the specification words it: a key of a
\* mapping, or a non-negative decimal index within a sequence, leads on;
\* every other step leads nowhere.
Miss == [t |-> "miss"]
IsIndexText(token) == token # <<>> /\ \A i \in 1..Len(token) : token[i] \in DecimalDigits

RECURSIVE PathLeadsTo(_, _)
PathLeadsTo(value, tokens) ==
  IF tokens = <<>> THEN value
  ELSE IF IsDict(value) /\ HasKey(value, Head(tokens))
    THEN PathLeadsTo(DictGet(value, Head(tokens)), Tail(tokens))
  ELSE IF IsList(value) /\ IsIndexText(Head(tokens)) /\ IntOf(Head(tokens)) < Len(value.v)
    THEN PathLeadsTo(value.v[IntOf(Head(tokens)) + 1], Tail(tokens))
  ELSE Miss

\* the value the configured result path leads to in the response of the last search
Remaining == PathLeadsTo(frame.response_data, built.value.result_path_tokens)

\* C1: extraction never raises; whenever a token of the result path names a
\* missing key, an index out of range, or meets a value of the wrong shape,
\* search returns the empty list.
C1_ExtractionNeverRaises ==
  SearchGotData =>
    /\ outcome.result.ok
    /\ (Remaining = Miss => outcome.result.value = <<>>)

\* C1, as far as the code goes: a path that leads nowhere gives the empty list
\* unless the token met on a sequence is a digit string int() does not read.
C1_MissGivesEmptyOrRaises ==
  (SearchGotData /\ Remaining = Miss) =>
    \/ outcome.result = Returned(<<>>)
    \/ (~outcome.result.ok /\ outcome.result.kind = "ValueError"
        /\ \E i \in 1..Len(built.value.result_path_tokens) :
             LET token == built.value.result_path_tokens[i]
             IN IsDigit(token) /\ ~IsIndexText(token))

\* the mapping's value under the first of results, items, data, documents that
\* holds a sequence; the mapping itself when none does
FirstConventionList(mapping) ==
  IF IsList(DictGet(mapping, K_results)) THEN DictGet(mapping, K_results)
  ELSE IF IsList(DictGet(mapping, K_items)) THEN DictGet(mapping, K_items)
  ELSE IF IsList(DictGet(mapping, K_data)) THEN DictGet(mapping, K_data)
  ELSE IF IsList(DictGet(mapping, K_documents)) THEN DictGet(mapping, K_documents)
  ELSE mapping

\* C2: when the value left after the path is a mapping, the extracted payload is
\* its value under the first of results, items, data, documents that holds a
\* sequence (earlier keys holding something else are passed over), or the
\* mapping itself when no key qualifies; a sequence is extracted unchanged.
C2_ConventionKeys ==
  (SearchExtracted /\ Remaining # Miss) =>
    /\ IsDict(Remaining) => frame.normalized_payload = FirstConventionList(Remaining)
    /\ IsList(Remaining) => frame.normalized_payload = Remaining

\* C2 witness: results holds a number and items a sequence, and items was taken
C2_Witness ==
  /\ SearchExtracted
  /\ built.value.result_path_tokens # <<>>
  /\ Remaining # Miss
  /\ IsDict(Remaining)
  /\ HasKey(Remaining, K_results)
  /\ ~IsList(DictGet(Remaining, K_results))
  /\ IsList(DictGet(Remaining, K_items))
  /\ frame.normalized_payload = DictGet(Remaining, K_items)

\* C3: a sequence of n extracted elements gives n results in order, the i-th
\* made of the i-th element at position i; a single mapping or scalar gives one.
C3_OneResultPerItem ==
  SearchExtracted =>
    /\ outcome.result.ok
    /\ LET payload == frame.normalized_payload
           results == outcome.result.value
       IN /\ IsList(payload) =>
               /\ Len(results) = Len(payload.v)
               /\ \A i \in 1..Len(payload.v) :
                    /\ results[i] = NormalizeItem(payload.v[i], i)
                    /\ IsDict(payload.v[i]) => results[i].metadata = payload.v[i]
                    /\ ~IsDict(payload.v[i]) =>
                         results[i].title = S_MCPO_Result \o IntToStr(i)
          /\ payload.t \in {"dict", "str", "num", "bool"} =>
               /\ Len(results) = 1
               /\ results[1] = NormalizeItem(payload, 1)

\* C3 witness: a sequence holding null and a nested sequence gave two results
C3_Witness ==
  /\ SearchExtracted
  /\ IsList(frame.normalized_payload)
  /\ Len(frame.normalized_payload.v) = 2
  /\ IsNone(frame.normalized_payload.v[1])
  /\ IsList(frame.normalized_payload.v[2])
  /\ outcome.result.ok
  /\ Len(outcome.result.value) = 2

\* C3 witness for the single item: the scalar 0 gave one result
C3_WitnessScalar ==
  /\ SearchExtracted
  /\ frame.normalized_payload = PyNum(0)
  /\ Len(outcome.result.value) = 1

(***************************************************************************)
(* Properties of tool discovery                                            *)
(***************************************************************************)
\* list_tools or discover_tools has returned the tools of a document with paths
ToolsReturned ==
  /\ outcome.op \in {"list_tools", "discover_tools"}
  /\ pc = "idle"
  /\ outcome.result.ok
  /\ IsDict(frame.response_data)
  /\ IsDict(DictGet(frame.response_data, K_paths))

\* a placeholder segment: enclosed in braces
IsPlaceholder(segment) ==
  Len(segment) >= 2 /\ segment[1] = "{" /\ segment[Len(segment)] = "}"

KeptSegment(segment) == segment # <<>> /\ ~IsPlaceholder(segment)

\* the segments of a path once the empty and the placeholder ones are dropped
DocSegments(raw_path) == SelectSeq(Split(raw_path, SLASH), KeptSegment)

\* the candidate prefixes in the order they are tried: the server identifier's
\* segments, then the path of each declared server URL in document order
DocPrefixes(server, document) ==
  LET servers == DictGet(document, K_servers)
  IN <<NonEmptySegments(server)>>
     \o (IF IsList(servers)
         THEN [i \in 1..Len(servers.v) |-> ServerEntryPath(servers.v[i])]
         ELSE <<>>)

IsPrefixOf(prefix, segments) ==
  /\ prefix # <<>>
  /\ Len(prefix) <= Len(segments)
  /\ \A i \in 1..Len(prefix) : segments[i] = prefix[i]

\* the segments with the first matching prefix removed, and only that one
WithoutPrefix(segments, prefixes) ==
  LET matching == {i \in 1..Len(prefixes) : IsPrefixOf(prefixes[i], segments)}
  IN IF matching = {} THEN segments
     ELSE LET first == CHOOSE i \in matching : \A j \in matching : i <= j
          IN [k \in 1..(Len(segments) - Len(prefixes[first])) |->
                segments[k + Len(prefixes[first])]]

HasPostOperation(operations) ==
  /\ IsDict(operations)
  /\ \E i \in 1..Len(operations.v) : Lower(operations.v[i][1]) = S_post

\* the name a path entry stands for: the last segment left after the prefix
EntryRest(entry, server, document) ==
  WithoutPrefix(DocSegments(entry[1]), DocPrefixes(server, document))

EntrySurvives(entry, server, document) ==
  LET rest == EntryRest(entry, server, document)
  IN /\ rest # <<>>
     /\ HasPostOperation(entry[2])
     /\ rest[Len(rest)] # server
     /\ Lower(rest[Len(rest)]) \notin {OPENAPI_JSON, S_openapi, S_docs}

EntryName(entry, server, document) ==
  LET rest == EntryRest(entry, server, document) IN rest[Len(rest)]

\* the entries that survive and whose name no earlier surviving entry has
FirstSeen(entries, server, document) ==
  {i \in 1..Len(entries) :
     /\ EntrySurvives(entries[i], server, document)
     /\ \A j \in 1..(i - 1) :
          EntrySurvives(entries[j], server, document)
            => EntryName(entries[j], server, document)
                 # EntryName(entries[i], server, document)}

\* tools lists the names of the first-seen entries, in document order
IsToolListOf(tools, entries, server, document) ==
  LET first_seen == FirstSeen(entries, server, document)
  IN /\ Len(tools) = Cardinality(first_seen)
     /\ \A i \in first_seen :
          tools[Cardinality({j \in first_seen : j <= i})]
            = EntryName(entries[i], server, document)

\* C4: the discovered tool list is exactly the final segments of the paths that
\* survive (segments cleaned, first matching base path stripped, something left,
\* a POST operation declared, the name neither the server identifier nor a
\* reserved one), without duplicates and in first-seen order.
C4_DiscoveredTools ==
  ToolsReturned =>
    IsToolListOf(outcome.result.value, DictGet(frame.response_data, K_paths).v,
                 built.value.server, frame.response_data)

\* C4 witness: a path declaring only GET precedes one declaring POST, and the
\* tool list holds the second path's name alone
C4_Witness ==
  /\ ToolsReturned
  /\ built.value.server = T_math
  /\ LET entries == DictGet(frame.response_data, K_paths).v
     IN /\ Len(entries) = 2
        /\ entries[1] = <<P_math_add, O_get>>
        /\ entries[2][1] = P_math_sub
        /\ HasPostOperation(entries[2][2])
  /\ outcome.result.value = <<T_sub>>

\* C4 witness: the name left after the declared server's prefix is the server
\* identifier, and the path gave no tool
C4_WitnessServerName ==
  /\ ToolsReturned
  /\ built.value.server = T_math
  /\ LET entries == DictGet(frame.response_data, K_paths).v
     IN /\ Len(entries) = 1
        /\ entries[1] = <<P_api_math, O_post>>
        /\ EntryRest(entries[1], T_math, frame.response_data) = <<T_math>>
  /\ outcome.result.value = <<>>

\* C4 witness: the prefix of a declared server URL was stripped, not the
\* server identifier's
C4_WitnessDeclaredServer ==
  /\ ToolsReturned
  /\ LET entries == DictGet(frame.response_data, K_paths).v
     IN /\ Len(entries) >= 1
        /\ entries[1][1] = P_api_mul
        /\ HasPostOperation(entries[1][2])
  /\ IsList(DictGet(frame.response_data, K_servers))
  /\ outcome.result.value # <<>>
  /\ Len(outcome.result.value[1]) = 3

(***************************************************************************)
(* Properties of the request body                                          *)
(***************************************************************************)
KeysOf(kvs) == {kvs[i][1] : i \in 1..Len(kvs)}

\* the static parameter map the client was constructed with
GivenStatic == IF IsDict(args.static_args) THEN args.static_args.v ELSE <<>>

\* C5: the body of the request search(query) sends is the static map with the
\* query-parameter name, when one is configured, mapped to the query: other
\* static entries are kept, an entry under that name is overridden, and with no
\* name configured the body is the static map; the client's map is not changed.
C5_RequestBody ==
  (pc = "post" /\ outcome.op = "search") =>
    LET body == request.json.v
        name == callee.query_param
    IN /\ IsDict(request.json)
       /\ \A i, j \in 1..Len(body) : body[i][1] = body[j][1] => i = j
       /\ Truthy(name) =>
            /\ KeysOf(body) = KeysOf(GivenStatic) \cup {name.v}
            /\ PairsGet(body, name.v) = outcome.arg
            /\ \A key \in KeysOf(GivenStatic) \ {name.v} :
                 PairsGet(body, key) = PairsGet(GivenStatic, key)
       /\ ~Truthy(name) => body = GivenStatic
       /\ callee.static_args = PyDict(GivenStatic)
       /\ built.value.static_args = PyDict(GivenStatic)

\* C5 witness: the static map holds an entry under the query-parameter name
\* and another one; the body carries the query and the other entry
C5_Witness ==
  /\ pc = "post"
  /\ outcome.op = "search"
  /\ outcome.arg = PyStr(T_cats)
  /\ callee.query_param = PyStr(T_query)
  /\ GivenStatic = << <<T_query, PyStr(T_x)>>, <<T_limit, PyNum(5)>> >>
  /\ request.json = PyDict(<< <<T_query, PyStr(T_cats)>>, <<T_limit, PyNum(5)>> >>)

\* C5 witness: no query-parameter name is configured and the body is the
\* static map alone
C5_WitnessStaticOnly ==
  /\ pc = "post"
  /\ outcome.op = "search"
  /\ ~Truthy(callee.query_param)
  /\ GivenStatic = << <<T_limit, PyNum(5)>> >>
  /\ request.json = PyDict(GivenStatic)

(***************************************************************************)
(* Properties of construction                                              *)
(***************************************************************************)
\* text with whitespace and separators trimmed off both ends
RECURSIVE Trimmed(_)
Trimmed(text) ==
  IF text # <<>> /\ Head(text) \in {SPACE, SLASH} THEN Trimmed(Tail(text))
  ELSE IF text # <<>> /\ text[Len(text)] \in {SPACE, SLASH}
    THEN Trimmed(SubSeq(text, 1, Len(text) - 1))
  ELSE text

IsConfigurationError(result) == ~result.ok /\ result.kind = "ValueError"

\* C6: construction fails with a configuration error whenever the base address
\* or the server identifier is empty after trimming, and a constructed client
\* stores a non-empty base address and a non-empty server identifier.
C6_NonEmptyIdentity ==
  /\ (Trimmed(args.base_url) = <<>> \/ Trimmed(args.server) = <<>>)
       => IsConfigurationError(built)
  /\ built.ok => (built.value.base_url # <<>> /\ built.value.server # <<>>)

\* C6, as far as the code goes: the arguments are tested before they are
\* trimmed, so only the empty string itself is refused
C6_EmptyRefused ==
  (args.base_url = <<>> \/ args.server = <<>>) => IsConfigurationError(built)

\* a base address and a server identifier as the documentation means them
ValidPair ==
  /\ IsAbsoluteHttp(args.base_url)
  /\ Len(RStripSlash(args.base_url)) > Len(S_http \o <<COLON, SLASH, SLASH>>)
  /\ StripSlash(args.server) # <<>>
  /\ IsNone(args.tool) \/ Strip(args.tool.v) # <<>>

\* C7: for a valid base/server pair and no override, construction succeeds and
\* the discovery address is <base>/<server>/openapi.json, base without its
\* trailing separators and server without its enclosing ones.
C7_DefaultDiscoveryAddress ==
  (ValidPair /\ IsNone(args.openapi_url)) =>
    /\ built.ok
    /\ built.value.openapi_url =
         PyStr(RStripSlash(args.base_url) \o <<SLASH>> \o StripSlash(args.server)
               \o <<SLASH>> \o OPENAPI_JSON)

\* C7 witness: both inputs carry separators at their ends
C7_Witness ==
  /\ args.base_url = T_h_slashes
  /\ args.server = T_math_slashes
  /\ IsNone(args.openapi_url)
  /\ built.ok
  /\ built.value.openapi_url =
       PyStr(<<"h", "t", "t", "p", ":", "/", "/", "h", "/", "m", "a", "t", "h", "/">>
             \o OPENAPI_JSON)

\* the override was given and is empty or whitespace only
EmptyOverride == IsStr(args.openapi_url) /\ Strip(args.openapi_url.v) = <<>>

\* C8: an override that is empty or whitespace only leaves the client without a
\* discovery address: construction succeeds, and list_tools / discover_tools
\* raise a configuration error without sending a request.
C8_EmptyOverrideDisablesDiscovery ==
  (EmptyOverride /\ ValidPair) =>
    /\ built.ok
    /\ IsNone(built.value.openapi_url)
    /\ outcome.op \in {"list_tools", "discover_tools"} =>
         (pc = "idle" /\ sent = 0 /\ IsConfigurationError(outcome.result))

\* C8, as far as the code goes: a whitespace-only override does so
C8_BlankOverrideDisablesDiscovery ==
  (EmptyOverride /\ args.openapi_url.v # <<>> /\ ValidPair) =>
    /\ built.ok
    /\ IsNone(built.value.openapi_url)
    /\ outcome.op \in {"list_tools", "discover_tools"} =>
         (pc = "idle" /\ sent = 0 /\ IsConfigurationError(outcome.result))

\* the settings of a client, an empty credential or query-parameter name read
\* as none configured
Settings(connector) ==
  [connector EXCEPT !.api_key = PyOr(@, PyNone), !.query_param = PyOr(@, PyNone)]

\* C9: with_tool(t), t a valid tool, returns a new client equal to the
\* original (here one made from a valid base/server pair) in base address,
\* server identifier, credential, query-parameter name, static parameters,
\* result-path tokens, timeout and discovery address, and the original is as
\* constructed.
C9_WithToolCarriesSettings ==
  (outcome.op = "with_tool" /\ Trimmed(outcome.arg.v) # <<>> /\ ValidPair) =>
    /\ outcome.result.ok
    /\ Settings(outcome.result.value)
         = [Settings(built.value) EXCEPT !.tool = PyStr(Trimmed(outcome.arg.v))]
    /\ built = MCPOConnector(args)

\* C9, as far as the code goes: every setting but the discovery address is
\* carried over whenever the stored base address and server are non-empty
C9_WithToolCarriesAllButAddress ==
  (/\ outcome.op = "with_tool"
   /\ Trimmed(outcome.arg.v) # <<>>
   /\ built.value.base_url # <<>>
   /\ built.value.server # <<>>) =>
    /\ outcome.result.ok
    /\ [Settings(outcome.result.value) EXCEPT !.openapi_url = PyNone]
         = [Settings(built.value) EXCEPT !.tool = PyStr(Trimmed(outcome.arg.v)),
                                         !.openapi_url = PyNone]

(***************************************************************************)
(* Properties of the HTTP exchange                                         *)
(***************************************************************************)
\* the errors raised before any request: a missing tool, a missing discovery
\* address, arguments the constructor refuses
ConfigurationMessages ==
  {"MCPO tool name has not been configured", "MCPO OpenAPI URL is not configured",
   "MCPO base URL cannot be empty", "MCPO server identifier cannot be empty",
   "MCPO tool name cannot be empty"}

FailedOnConfiguration ==
  IsConfigurationError(outcome.result) /\ outcome.result.msg \in ConfigurationMessages

\* C10: a search, list_tools or discover_tools call sends at most one request:
\* none when it fails on configuration, one otherwise; after a failure status,
\* a connection failure or a timeout the error is the call's outcome and
\* nothing is sent again.
C10_AtMostOneRequest ==
  outcome.op \in {"search", "list_tools", "discover_tools"} =>
    /\ sent \in {0, 1}
    /\ sent = 0 <=> FailedOnConfiguration
    /\ pc # "idle" => (sent = 1 /\ request # NoRequest /\ outcome.result = Pending)
    /\ pc = "idle" => (request = NoRequest /\ outcome.result # Pending)
    /\ (~outcome.result.ok /\ outcome.result.kind \in HttpFailures) =>
         (pc = "idle" /\ sent = 1)

\* C10 witness: a search timed out after its one request
C10_Witness ==
  /\ outcome.op = "search"
  /\ pc = "idle"
  /\ outcome.result = Raised("TimeoutException", "")
  /\ sent = 1
  /\ request = NoRequest

\* C10 witness: a search without a tool raised before sending anything
C10_WitnessNoTool ==
  /\ outcome.op = "search"
  /\ built.ok
  /\ IsNone(built.value.tool)
  /\ FailedOnConfiguration
  /\ sent = 0

\* C10 witness: discovery without a discovery address raised before sending
C10_WitnessNoAddress ==
  /\ outcome.op \in {"list_tools", "discover_tools"}
  /\ built.ok
  /\ IsNone(built.value.openapi_url)
  /\ FailedOnConfiguration
  /\ sent = 0

(***************************************************************************)
(* Properties of normalization                                             *)
(***************************************************************************)
\* search() has normalized the elements of a sequence
SequenceNormalized ==
  SearchExtracted /\ IsList(frame.normalized_payload) /\ outcome.result.ok

\* the first of title, name, id that holds something, as text; the fallback
\* when the item is no mapping or none of them does
TitleOrFallback(item, fallback) ==
  IF IsDict(item) /\ Truthy(DictGet(item, K_title)) THEN PyStrOf(DictGet(item, K_title))
  ELSE IF IsDict(item) /\ Truthy(DictGet(item, K_name)) THEN PyStrOf(DictGet(item, K_name))
  ELSE IF IsDict(item) /\ Truthy(DictGet(item, K_id)) THEN PyStrOf(DictGet(item, K_id))
  ELSE fallback

S_Result == <<"R", "e", "s", "u", "l", "t", " ">>

\* C11, as stated: the title is non-empty; for a mapping it is title, else
\* name, else id, else "Result <p>"; for any other item it is "Result <p>".
C11_TitleAsStated ==
  SequenceNormalized =>
    \A i \in 1..Len(frame.normalized_payload.v) :
      /\ outcome.result.value[i].title # <<>>
      /\ outcome.result.value[i].title
           = TitleOrFallback(frame.normalized_payload.v[i], S_Result \o IntToStr(i))

\* C11: the title is non-empty; for a mapping it is the text of the first of
\* title, name, id that holds a value, else "MCPO Result <p>"; for any other
\* item it is "MCPO Result <p>".
C11_Title ==
  SequenceNormalized =>
    \A i \in 1..Len(frame.normalized_payload.v) :
      /\ outcome.result.value[i].title # <<>>
      /\ outcome.result.value[i].title
           = TitleOrFallback(frame.normalized_payload.v[i],
                             <<"M", "C", "P", "O", " ">> \o S_Result \o IntToStr(i))

\* C11 witness: the second element is a mapping with an id alone and the first
\* a number; the titles are the fallback of position 1 and the id
C11_Witness ==
  /\ SequenceNormalized
  /\ frame.normalized_payload = PyList(<<PyNum(7), Item_x1>>)
  /\ outcome.result.value[1].title
       = <<"M", "C", "P", "O", " ", "R", "e", "s", "u", "l", "t", " ", "1">>
  /\ outcome.result.value[2].title = T_x1

\* C11 witness: an empty title is passed over for the name
C11_WitnessName ==
  /\ SequenceNormalized
  /\ frame.normalized_payload
       = PyList(<<PyDict(<< <<K_title, PyStr(T_empty)>>, <<K_name, PyStr(T_n)>> >>)>>)
  /\ outcome.result.value[1].title = T_n

\* the first of description, summary, snippet that holds a non-empty string
FirstStringOf(item) ==
  IF IsStr(DictGet(item, K_description)) /\ DictGet(item, K_description).v # <<>>
    THEN DictGet(item, K_description).v
  ELSE IF IsStr(DictGet(item, K_summary)) /\ DictGet(item, K_summary).v # <<>>
    THEN DictGet(item, K_summary).v
  ELSE IF IsStr(DictGet(item, K_snippet)) /\ DictGet(item, K_snippet).v # <<>>
    THEN DictGet(item, K_snippet).v
  ELSE <<>>

\* C12: for a mapping the description is the first of description, summary,
\* snippet that holds a string, even after a field holding something else; with
\* none, it is the first 200 characters of a non-empty content, so the
\* description is non-empty whenever the content is.
C12_Description ==
  SequenceNormalized =>
    \A i \in 1..Len(frame.normalized_payload.v) :
      LET item == frame.normalized_payload.v[i]
          record == outcome.result.value[i]
      IN IsDict(item) =>
           /\ FirstStringOf(item) # <<>> => record.description = FirstStringOf(item)
           /\ (FirstStringOf(item) = <<>> /\ record.content # <<>>) =>
                record.description = Take(record.content, DescriptionLimit)
           /\ record.content # <<>> => record.description # <<>>

\* C12, as far as the code goes: the first of the three fields that holds a
\* truthy value decides; when it is a string it is the description, otherwise
\* the description comes from the content
C12_DescriptionFirstTruthy ==
  SequenceNormalized =>
    \A i \in 1..Len(frame.normalized_payload.v) :
      LET item == frame.normalized_payload.v[i]
          record == outcome.result.value[i]
          chosen == IF ~IsDict(item) THEN PyNone
                    ELSE IF Truthy(DictGet(item, K_description))
                      THEN DictGet(item, K_description)
                    ELSE IF Truthy(DictGet(item, K_summary)) THEN DictGet(item, K_summary)
                    ELSE DictGet(item, K_snippet)
      IN /\ IsStr(chosen) /\ chosen.v # <<>> => record.description = chosen.v
         /\ ~(IsStr(chosen) /\ chosen.v # <<>>) =>
              record.description = Take(record.content, DescriptionLimit)
         /\ record.content # <<>> => record.description # <<>>

(***************************************************************************)
(* Properties of the configuration validator                               *)
(***************************************************************************)
\* two configurations hold the same keys with the same values
SameConfig(a, b) ==
  {a.v[i] : i \in 1..Len(a.v)} = {b.v[i] : i \in 1..Len(b.v)}

\* the validator has run again on the configuration it returned
Revalidated == outcome.op = "validate"

\* the stored base address and server identifier of an accepted configuration
StoredBaseUrl == DictGet(validation.value, MCPO_BASE_URL).v
StoredServer == DictGet(validation.value, MCPO_SERVER).v

\* C13: the validator is idempotent: run again on the configuration it
\* returned, it accepts it and returns a configuration with the same keys
\* and the same values.
C13_Idempotent ==
  Revalidated =>
    /\ outcome.result.ok
    /\ SameConfig(outcome.result.value, outcome.arg)

\* the base address and server identifier the second run was given
RerunBaseUrl == DictGet(outcome.arg, MCPO_BASE_URL).v
RerunServer == DictGet(outcome.arg, MCPO_SERVER).v

\* C13, as far as the code goes: the second run changes nothing when the
\* base address and server identifier it is given are non-empty and neither
\* begin nor end with a space.
C13_IdempotentWhenTrimmed ==
  (/\ Revalidated
   /\ RerunBaseUrl # <<>> /\ Strip(RerunBaseUrl) = RerunBaseUrl
   /\ RerunServer # <<>> /\ Strip(RerunServer) = RerunServer) =>
    /\ outcome.result.ok
    /\ SameConfig(outcome.result.value, outcome.arg)

\* a second run over a configuration whose submitted values all needed
\* sanitizing, with nothing left to change
C13_Witness ==
  /\ Revalidated
  /\ outcome.result.ok
  /\ SameConfig(outcome.result.value, outcome.arg)
  /\ ~SameConfig(outcome.arg, submitted)
  /\ Len(outcome.arg.v) >= 7

\* a second run that changes the stored base address
C13_WitnessChanged ==
  /\ Revalidated
  /\ outcome.result.ok
  /\ DictGet(outcome.result.value, MCPO_BASE_URL) # DictGet(outcome.arg, MCPO_BASE_URL)

\* a second run that refuses the configuration the first run returned
C13_WitnessRefused == Revalidated /\ ~outcome.result.ok

\* the tool names a submitted configuration lists, as written
SubmittedNames(c) ==
  IF IsList(DictGet(c, MCPO_TOOLS))
  THEN [i \in 1..Len(DictGet(c, MCPO_TOOLS).v) |-> DictGet(c, MCPO_TOOLS).v[i].v]
  ELSE IF IsStr(DictGet(c, MCPO_TOOLS)) /\ DictGet(c, MCPO_TOOLS).v # <<>>
  THEN [i \in 1..Len(JsonLoads(DictGet(c, MCPO_TOOLS).v).value.v) |->
          JsonLoads(DictGet(c, MCPO_TOOLS).v).value.v[i].v]
  ELSE <<>>

\* the legacy tool name a submitted configuration gives, trimmed
LegacyName(c) ==
  IF HasKey(c, MCPO_TOOL) /\ ~IsNone(DictGet(c, MCPO_TOOL))
       /\ Strip(PyStrOf(DictGet(c, MCPO_TOOL))) # <<>>
  THEN <<Strip(PyStrOf(DictGet(c, MCPO_TOOL)))>>
  ELSE <<>>

\* the trimmed submitted names, then the trimmed legacy name, first occurrences
ExpectedTools(c) ==
  Unique([i \in 1..Len(SubmittedNames(c)) |-> Strip(SubmittedNames(c)[i])]
           \o LegacyName(c), <<>>)

\* MCPO_TOOLS of the accepted configuration is absent when no name is left
\* and the list of expected names otherwise
ToolsMerged ==
  IF ExpectedTools(submitted) = <<>>
  THEN ~HasKey(validation.value, MCPO_TOOLS)
  ELSE /\ HasKey(validation.value, MCPO_TOOLS)
       /\ DictGet(validation.value, MCPO_TOOLS) =
            PyList([i \in 1..Len(ExpectedTools(submitted)) |-> PyStr(ExpectedTools(submitted)[i])])

\* C14: an accepted configuration no longer has the legacy key MCPO_TOOL,
\* whatever its submitted value, and its MCPO_TOOLS is absent or the
\* non-empty duplicate-free list of the trimmed submitted names followed by
\* the trimmed legacy name.
C14_LegacyRemoved ==
  validation.ok => ~HasKey(validation.value, MCPO_TOOL) /\ ToolsMerged

\* C14, as far as the code goes: the tool list is as stated, and the legacy
\* key is left in place only with the value None or the empty string.
C14_LegacyRemovedUnlessEmpty ==
  validation.ok =>
    /\ ToolsMerged
    /\ HasKey(validation.value, MCPO_TOOL) =>
         /\ DictGet(validation.value, MCPO_TOOL) \in {PyNone, PyStr(<<>>)}
         /\ DictGet(validation.value, MCPO_TOOL) = DictGet(submitted, MCPO_TOOL)

\* MCPO_TOOL "x" with MCPO_TOOLS ["y"] accepted as MCPO_TOOLS ["y", "x"]
C14_Witness ==
  /\ validation.ok
  /\ DictGet(submitted, MCPO_TOOL) = PyStr(T_x)
  /\ DictGet(submitted, MCPO_TOOLS) = PyList(<<PyStr(T_y)>>)
  /\ DictGet(validation.value, MCPO_TOOLS) = PyList(<<PyStr(T_y), PyStr(T_x)>>)
  /\ ~HasKey(validation.value, MCPO_TOOL)

\* a repeated name kept once, at its first occurrence
C14_WitnessDuplicate ==
  /\ validation.ok
  /\ Len(SubmittedNames(submitted)) + Len(LegacyName(submitted)) > Len(ExpectedTools(submitted))
  /\ ExpectedTools(submitted) # <<>>

\* an accepted configuration that still has the legacy key
C14_WitnessLegacyKept == validation.ok /\ HasKey(validation.value, MCPO_TOOL)

\* the keys of a configuration
Keys(c) == {c.v[i][1] : i \in 1..Len(c.v)}

\* the keys an MCPO connector configuration must have, and those it may have
RequiredKeys == {MCPO_BASE_URL, MCPO_SERVER}
AllowedKeys ==
  RequiredKeys \cup {MCPO_API_KEY, MCPO_QUERY_PARAM, MCPO_STATIC_ARGS, MCPO_RESULT_PATH,
                     MCPO_TIMEOUT, MCPO_OPENAPI_URL, MCPO_TOOLS, MCPO_TOOL}

\* the validator has run on the submitted configuration
Validated == validation # Pending

\* C15: a configuration with a key outside the required and optional keys,
\* or without a required key, is refused with a ValueError; so every
\* accepted configuration has both required keys and only allowed keys.
C15_KeysChecked ==
  Validated =>
    /\ (~(Keys(submitted) \subseteq AllowedKeys) \/ ~(RequiredKeys \subseteq Keys(submitted)))
         => IsConfigurationError(validation)
    /\ validation.ok =>
         /\ RequiredKeys \subseteq Keys(validation.value)
         /\ Keys(validation.value) \subseteq AllowedKeys

\* a configuration with both required keys refused for a key outside the sets
C15_Witness ==
  /\ Validated
  /\ RequiredKeys \subseteq Keys(submitted)
  /\ ~(Keys(submitted) \subseteq AllowedKeys)
  /\ IsConfigurationError(validation)

\* a configuration of allowed keys refused for a required key it omits
C15_WitnessMissing ==
  /\ Validated
  /\ Keys(submitted) \subseteq AllowedKeys
  /\ Keys(submitted) # {}
  /\ ~(RequiredKeys \subseteq Keys(submitted))
  /\ IsConfigurationError(validation)

\* a configuration with every allowed key accepted
C15_WitnessAccepted ==
  /\ validation.ok
  /\ Keys(submitted) = AllowedKeys

\* a client has been constructed from the accepted configuration
Constructed == outcome.op = "construct"

\* the client refused an empty base address or server identifier
RefusedAsEmpty(result) ==
  /\ IsConfigurationError(result)
  /\ result.msg \in {"MCPO base URL cannot be empty",
                     "MCPO server identifier cannot be empty"}

\* C16: the MCPO_BASE_URL and MCPO_SERVER of an accepted configuration are
\* non-empty strings, so the client constructed from it never refuses them
\* as empty.
C16_IdentifiersAgree ==
  /\ validation.ok =>
       /\ IsStr(DictGet(validation.value, MCPO_BASE_URL)) /\ StoredBaseUrl # <<>>
       /\ IsStr(DictGet(validation.value, MCPO_SERVER)) /\ StoredServer # <<>>
  /\ Constructed => ~RefusedAsEmpty(outcome.result)

\* a text of blanks and separators only
OnlySeparators(s) == \A i \in 1..Len(s) : s[i] \in {SPACE, SLASH}

\* C16, as far as the code goes: both are strings; one is empty only when
\* the submitted value holds nothing but blanks and separators, and always
\* when the submitted value, trimmed, holds nothing but separators; the
\* client refuses exactly the configurations with an empty one.
C16_EmptyOnlyFromSeparators ==
  validation.ok =>
    /\ IsStr(DictGet(validation.value, MCPO_BASE_URL))
    /\ IsStr(DictGet(validation.value, MCPO_SERVER))
    /\ StoredBaseUrl = <<>> => OnlySeparators(DictGet(submitted, MCPO_BASE_URL).v)
    /\ StoredServer = <<>> => OnlySeparators(DictGet(submitted, MCPO_SERVER).v)
    /\ RStripSlash(Strip(DictGet(submitted, MCPO_BASE_URL).v)) = <<>> => StoredBaseUrl = <<>>
    /\ StripSlash(Strip(DictGet(submitted, MCPO_SERVER).v)) = <<>> => StoredServer = <<>>
    /\ Constructed =>
         (RefusedAsEmpty(outcome.result) <=> (StoredBaseUrl = <<>> \/ StoredServer = <<>>))
    /\ Constructed => (outcome.result.ok \/ RefusedAsEmpty(outcome.result))

\* a client constructed from an accepted configuration whose values needed trimming
C16_Witness ==
  /\ Constructed
  /\ outcome.result.ok
  /\ StoredBaseUrl # DictGet(submitted, MCPO_BASE_URL).v
  /\ StoredServer # DictGet(submitted, MCPO_SERVER).v

\* an accepted configuration whose stored base address is empty, refused by the client
C16_WitnessRefused ==
  /\ Constructed
  /\ StoredBaseUrl = <<>>
  /\ RefusedAsEmpty(outcome.result)

\* an accepted configuration whose stored server identifier is empty
C16_WitnessEmptyServer == validation.ok /\ StoredServer = <<>>

=============================================================================
